---- MODULE Spec2Model ----
(***************************************************************************)
(* State-machine model of the student-attendance server: the class,        *)
(* student and professor collections with their mutual back-references     *)
(* (class.controller, student.controller, professor.controller) and the    *)
(* attendance collection written by markBulkAttendance                     *)
(* (attendance.controller).                                                *)
(*                                                                         *)
(* A MongoDB array field is modelled by the set of its elements: every     *)
(* operator the code applies to these fields ($addToSet, $pull, $in, an    *)
(* equality match on an array) reads an array as a set.  A field that was  *)
(* $set to null is the value NullArray, which is not an array: $addToSet   *)
(* and $pull fail on it and no array query matches it.                     *)
(***************************************************************************)
EXTENDS Integers, Sequences, FiniteSets, Bags, TLC

\* ------------------------------------------------------------------------
\* Universe of identifiers
\* ------------------------------------------------------------------------
HodIds == {"hA", "hB"}
ClassIds == {"c1", "c2"}
StudentIds == {"s1", "s2", "s3"}
ProfessorIds == {"p1", "p2", "p3"}
ObjectIds == HodIds \cup ClassIds \cup StudentIds \cup ProfessorIds

\* A request string that is not a well-formed ObjectId.
BadId == "bad"
\* A request field that was not supplied.
NoValue == "undefined"
\* Human-facing class numbers as they arrive in a request.
ClassNumbers == {"1", "2"}
EnrollmentNumbers == {"e1", "e2", "e3"}

\* Longest id list a request carries.
MaxIds == 2
\* Longest records[] list a markBulkAttendance request carries.
MaxRecords == 2
\* markBulkAttendance calls that can be in flight together.
MaxCalls == 2
CallIds == 1..MaxCalls

Range(seq) == {seq[i] : i \in DOMAIN seq}

\* The handlers read an id list only through its length and the set of its
\* elements, so one list is enumerated for each multiset of ids.
Rank(x) ==
  CASE x \in {"s1", "c1", "p1", "1"} -> 1
    [] x \in {"s2", "c2", "p2", "2"} -> 2
    [] x \in {"s3", "p3"} -> 3
    [] OTHER -> 0
IdLists(S) ==
  {l \in UNION {[1..n -> S] : n \in 0..MaxIds} :
     \A i \in 1..(Len(l) - 1) : Rank(l[i]) <= Rank(l[i + 1])}

\* The value of an array field that holds null.
NullArray == {"null"}
IsArray(v) == v # NullArray

\* mongoose.Types.ObjectId.isValid
ObjectIdIsValid(x) == x \in ObjectIds

\* Mongoose's cast of a request value to the Number field Class.classId;
\* 0 stands for a value that does not cast (CastError).
CastNumber(x) == IF x = "1" THEN 1 ELSE IF x = "2" THEN 2 ELSE 0

VARIABLES
  Class,       \* _id -> [classId, createdBy, students, professors]
  Student,     \* _id -> [enrollmentNumber, createdBy, classIds]
  Professor,   \* _id -> [createdBy, classes]
  allocated,   \* every _id the store has ever minted
  last,        \* the latest completed HOD request and its HTTP status
  prev,        \* the collections that request changes, as they were when it arrived
  audit,       \* whether last and prev keep the request's arguments
  Attendance,  \* the attendance collection: a bag of documents
  calls,       \* the markBulkAttendance calls in flight
  HOD,         \* _id -> the tenant's account document
  Counter,     \* hod -> seq, the per-tenant class number sequence
  clock        \* Date.now()

vars == <<Class, Student, Professor, allocated, last, prev, audit, Attendance, calls,
          HOD, Counter, clock>>

Roster == [Class |-> Class, Student |-> Student, Professor |-> Professor]

\* One outcome of a handler: the HTTP status and the collections it leaves.
Out(st, C, S, P) == [status |-> st, Class |-> C, Student |-> S, Professor |-> P]
Fail(st) == Out(st, Class, Student, Professor)

\* Class.findOne({ _id: classId, createdBy: hodId })
ClassOwned(classId, hodId) ==
  classId \in DOMAIN Class /\ Class[classId].createdBy = hodId

\* A lookup of students that ignores who owns them.
studentsOfAnyTenant(hodId, ids) == DOMAIN Student \cap ids
\* Student.find({ _id: { $in: ids }, createdBy: hodId })
studentsFound(hodId, ids) ==
  {s \in DOMAIN Student \cap ids : Student[s].createdBy = hodId}

\* Student.updateMany(... { $addToSet: { classIds: classId } }) on `targets`:
\* the update stops at the first document whose classIds is not an array, the
\* documents updated before it stay updated.  ok tells whether it completed.
StudentsAddClass(S, targets, classId) ==
  LET broken == {s \in targets : ~IsArray(S[s].classIds)}
      upd(U) == [s \in DOMAIN S |->
                  IF s \in U THEN [S[s] EXCEPT !.classIds = @ \cup {classId}]
                  ELSE S[s]]
  IN  IF broken = {} THEN {[ok |-> TRUE, Student |-> upd(targets)]}
      ELSE {[ok |-> FALSE, Student |-> upd(U)] : U \in SUBSET (targets \ broken)}

\* Student.updateMany(... { $pull: { classIds: ... } }) removing `classIds`.
StudentsPullClasses(S, targets, classIds) ==
  LET broken == {s \in targets : ~IsArray(S[s].classIds)}
      upd(U) == [s \in DOMAIN S |->
                  IF s \in U THEN [S[s] EXCEPT !.classIds = @ \ classIds]
                  ELSE S[s]]
  IN  IF broken = {} THEN {[ok |-> TRUE, Student |-> upd(targets)]}
      ELSE {[ok |-> FALSE, Student |-> upd(U)] : U \in SUBSET (targets \ broken)}

\* ------------------------------------------------------------------------
\* class.controller: assignStudentsToClass
\* ------------------------------------------------------------------------
assignStudentsToClass(hodId, classId, studentIds) ==
  IF Len(studentIds) = 0 THEN {Fail(400)}
  ELSE IF ~ObjectIdIsValid(classId) THEN {Fail(500)}
  ELSE IF ~ClassOwned(classId, hodId) THEN {Fail(404)}
  ELSE IF \E i \in DOMAIN studentIds : ~ObjectIdIsValid(studentIds[i]) THEN {Fail(500)}
  ELSE IF Cardinality(studentsFound(hodId, Range(studentIds))) # Len(studentIds)
       THEN {Fail(404)}
  ELSE LET ids == Range(studentIds)
           C1 == [Class EXCEPT ![classId].students = @ \cup ids]
       IN  {Out(IF r.ok THEN 200 ELSE 500, C1, r.Student, Professor) :
              r \in StudentsAddClass(Student, DOMAIN Student \cap ids, classId)}

\* ------------------------------------------------------------------------
\* class.controller: removeStudentsFromClass
\* ------------------------------------------------------------------------
removeStudentsFromClass(hodId, classId, studentIds) ==
  IF Len(studentIds) = 0 THEN {Fail(400)}
  ELSE IF ~ObjectIdIsValid(classId) THEN {Fail(500)}
  ELSE IF ~ClassOwned(classId, hodId) THEN {Fail(404)}
  ELSE IF \E i \in DOMAIN studentIds : ~ObjectIdIsValid(studentIds[i]) THEN {Fail(500)}
  ELSE LET ids == Range(studentIds)
       IN  {IF r.ok
              THEN Out(200, [Class EXCEPT ![classId].students = @ \ ids],
                       r.Student, Professor)
              ELSE Out(500, Class, r.Student, Professor) :
              r \in StudentsPullClasses(Student, DOMAIN Student \cap ids, {classId})}

\* ------------------------------------------------------------------------
\* class.controller: assignProfessorsToClass / removeProfessorsFromClass
\* ------------------------------------------------------------------------
\* Professor.find({ _id: { $in: ids }, createdBy: hodId })
professorsFound(hodId, ids) ==
  {p \in DOMAIN Professor \cap ids : Professor[p].createdBy = hodId}

assignProfessorsToClass(hodId, classId, professorIds) ==
  IF Len(professorIds) = 0 THEN {Fail(400)}
  ELSE IF ~ObjectIdIsValid(classId) THEN {Fail(500)}
  ELSE IF ~ClassOwned(classId, hodId) THEN {Fail(404)}
  ELSE IF \E i \in DOMAIN professorIds : ~ObjectIdIsValid(professorIds[i]) THEN {Fail(500)}
  ELSE IF Cardinality(professorsFound(hodId, Range(professorIds))) # Len(professorIds)
       THEN {Fail(404)}
  ELSE LET ids == Range(professorIds)
           merged == Class[classId].professors \cup ids
       IN  {Out(200, [Class EXCEPT ![classId].professors = merged], Student,
                [p \in DOMAIN Professor |->
                   IF p \in ids THEN [Professor[p] EXCEPT !.classes = @ \cup {classId}]
                   ELSE Professor[p]])}

removeProfessorsFromClass(hodId, classId, professorIds) ==
  IF Len(professorIds) = 0 THEN {Fail(400)}
  ELSE IF ~ObjectIdIsValid(classId) THEN {Fail(500)}
  ELSE IF ~ClassOwned(classId, hodId) THEN {Fail(404)}
  ELSE IF \E i \in DOMAIN professorIds : ~ObjectIdIsValid(professorIds[i]) THEN {Fail(500)}
  ELSE LET ids == Range(professorIds)
       IN  {Out(200, [Class EXCEPT ![classId].professors = @ \ ids], Student,
                [p \in DOMAIN Professor |->
                   IF p \in ids THEN [Professor[p] EXCEPT !.classes = @ \ {classId}]
                   ELSE Professor[p]])}

\* ------------------------------------------------------------------------
\* class.controller: deleteClass / bulkDeleteClasses
\* ------------------------------------------------------------------------
\* Student.updateMany({ classIds: _id }, { $set: { classIds: null } })
DetachStudentsOfClass(S, classId) ==
  [s \in DOMAIN S |->
     IF classId \in S[s].classIds THEN [S[s] EXCEPT !.classIds = NullArray] ELSE S[s]]

\* Professor.updateMany({ classes: ... }, { $pull: { classes: ... } })
ProfessorsPullClasses(P, classIds) ==
  [p \in DOMAIN P |-> [P[p] EXCEPT !.classes = @ \ classIds]]

Without(f, ids) == [x \in DOMAIN f \ ids |-> f[x]]

deleteClass(hodId, id) ==
  IF ~ObjectIdIsValid(id) THEN {Fail(500)}
  ELSE IF ~ClassOwned(id, hodId) THEN {Fail(404)}
  ELSE {Out(200, Without(Class, {id}), DetachStudentsOfClass(Student, id),
            ProfessorsPullClasses(Professor, {id}))}

bulkDeleteClasses(hodId, classIds) ==
  LET validIds == {c \in Range(classIds) : ObjectIdIsValid(c)}
      classObjectIds == {c \in validIds : ClassOwned(c, hodId)}
  IN  IF Len(classIds) = 0 THEN {Fail(400)}
      ELSE IF validIds = {} THEN {Fail(400)}
      ELSE IF classObjectIds = {} THEN {Fail(404)}
      ELSE {Out(200, Without(Class, classObjectIds),
                [s \in DOMAIN Student |->
                   IF IsArray(Student[s].classIds)
                     THEN [Student[s] EXCEPT !.classIds = @ \ classObjectIds]
                     ELSE Student[s]],
                ProfessorsPullClasses(Professor, classObjectIds))}

\* ------------------------------------------------------------------------
\* student.controller: deleteStudent / deleteStudentsBulk
\* ------------------------------------------------------------------------
\* Class.updateMany({ _id: { $in: classIds } }, { $pull: { students: s } })
\* for every student s of `students` whose classIds is a non-empty array.
ClassesPullStudents(C, students) ==
  [c \in DOMAIN C |->
     [C[c] EXCEPT !.students =
        @ \ {s \in students : IsArray(Student[s].classIds) /\ c \in Student[s].classIds}]]

deleteStudent(hodId, id) ==
  IF ~ObjectIdIsValid(id) THEN {Fail(500)}
  ELSE IF studentsFound(hodId, {id}) = {} THEN {Fail(404)}
  ELSE {Out(200, ClassesPullStudents(Class, {id}), Without(Student, {id}), Professor)}

deleteStudentsBulk(hodId, studentIds) ==
  LET students == studentsFound(hodId, Range(studentIds))
  IN  IF Len(studentIds) = 0 THEN {Fail(400)}
      ELSE IF \E i \in DOMAIN studentIds : ~ObjectIdIsValid(studentIds[i]) THEN {Fail(500)}
      ELSE IF students = {} THEN {Fail(404)}
      ELSE {Out(200, ClassesPullStudents(Class, students), Without(Student, students),
                Professor)}

\* ------------------------------------------------------------------------
\* professor.controller: deleteProfessor / bulkDeleteProfessors
\* ------------------------------------------------------------------------
\* A delete that leaves the classes as they are.
KeepClassProfessors(C, professors) == C
\* Class.updateMany({ professors: ... }, { $pull: { professors: ... } })
ClassesPullProfessors(C, professors) ==
  [c \in DOMAIN C |-> [C[c] EXCEPT !.professors = @ \ professors]]

deleteProfessor(hodId, id) ==
  IF ~ObjectIdIsValid(id) THEN {Fail(500)}
  ELSE IF professorsFound(hodId, {id}) = {} THEN {Fail(404)}
  ELSE {Out(200, ClassesPullProfessors(Class, {id}), Student, Without(Professor, {id}))}

bulkDeleteProfessors(hodId, professorIds) ==
  LET validIds == {p \in Range(professorIds) : ObjectIdIsValid(p)}
      profObjectIds == professorsFound(hodId, validIds)
  IN  IF Len(professorIds) = 0 THEN {Fail(400)}
      ELSE IF validIds = {} THEN {Fail(400)}
      ELSE IF profObjectIds = {} THEN {Fail(404)}
      ELSE {Out(200, ClassesPullProfessors(Class, profObjectIds), Student,
                Without(Professor, profObjectIds))}

\* ------------------------------------------------------------------------
\* student.controller: addStudent / updateStudent
\* ------------------------------------------------------------------------
NotFound == "404"
CastError == "500"

\* The class a request's classId names: an ObjectId is looked up by _id, any
\* other value by the numeric classId, both within the caller's tenant.
ResolveClass(hodId, ref) ==
  IF ObjectIdIsValid(ref)
    THEN IF ClassOwned(ref, hodId) THEN ref ELSE NotFound
  ELSE IF CastNumber(ref) = 0 THEN CastError
  ELSE LET hit == {c \in DOMAIN Class :
                     Class[c].classId = CastNumber(ref) /\ Class[c].createdBy = hodId}
       IN  IF hit = {} THEN NotFound ELSE CHOOSE c \in hit : TRUE

\* Student.findOne({ enrollmentNumber })
EnrollmentTaken(enrollmentNumber) ==
  \E s \in DOMAIN Student : Student[s].enrollmentNumber = enrollmentNumber

\* newId is the _id the store mints for the new document.
addStudent(hodId, enrollmentNumber, classId, newId) ==
  IF enrollmentNumber = NoValue THEN {Fail(400)}
  ELSE IF EnrollmentTaken(enrollmentNumber) THEN {Fail(400)}
  ELSE LET cls == IF classId = NoValue THEN NoValue ELSE ResolveClass(hodId, classId)
       IN  IF cls = NotFound THEN {Fail(404)}
           ELSE IF cls = CastError THEN {Fail(500)}
           ELSE LET doc == [enrollmentNumber |-> enrollmentNumber, createdBy |-> hodId,
                            classIds |-> IF cls = NoValue THEN {} ELSE {cls}]
                    S1 == [s \in DOMAIN Student \cup {newId} |->
                             IF s = newId THEN doc ELSE Student[s]]
                IN  {Out(201,
                         IF cls = NoValue THEN Class
                         ELSE [Class EXCEPT ![cls].students = @ \cup {newId}],
                         S1, Professor)}

\* classesToRemove: student.classIds.filter(cid => !newClassIds.includes(cid)).
\* newClassIds is a plain array of ObjectId objects read by other queries, and
\* Array.prototype.includes compares objects by reference: nothing is found.
classesToRemove(old, newClassIds) == old

\* classesToAdd: newClassIds.filter(cid => !student.classIds.includes(cid)).
\* student.classIds is a Mongoose array, whose includes compares by value.
classesToAdd(old, newClassIds) == newClassIds \ old

\* classId is [given, ids]: the body's classId as a list, when it has one.
updateStudent(hodId, studentId, enrollmentNumber, classId, semester) ==
  IF ~ObjectIdIsValid(studentId) THEN {Fail(500)}
  ELSE IF studentsFound(hodId, {studentId}) = {} THEN {Fail(404)}
  ELSE IF /\ enrollmentNumber # NoValue
          /\ enrollmentNumber # Student[studentId].enrollmentNumber
          /\ EnrollmentTaken(enrollmentNumber)
       THEN {Fail(400)}
  ELSE
    LET old == Student[studentId].classIds
        refs == classId.ids
        resolved == [i \in DOMAIN refs |-> ResolveClass(hodId, refs[i])]
        \* the loop returns at the first id that fails
        firstBad == {i \in DOMAIN refs :
                       /\ resolved[i] \in {NotFound, CastError}
                       /\ \A j \in 1..(i - 1) : resolved[j] \notin {NotFound, CastError}}
        newClassIds == Range(resolved)
        C1 == IF classId.given
                THEN [c \in DOMAIN Class |->
                        [Class[c] EXCEPT !.students =
                           IF c \in classesToAdd(old, newClassIds)
                             THEN (IF c \in classesToRemove(old, newClassIds)
                                     THEN @ \ {studentId} ELSE @) \cup {studentId}
                           ELSE IF c \in classesToRemove(old, newClassIds)
                             THEN @ \ {studentId}
                           ELSE @]]
                ELSE Class
        S1 == [Student EXCEPT
                 ![studentId].enrollmentNumber =
                     IF enrollmentNumber # NoValue THEN enrollmentNumber ELSE @,
                 ![studentId].classIds = IF classId.given THEN newClassIds ELSE @]
    IN  IF classId.given /\ firstBad # {}
          THEN {Fail(IF resolved[CHOOSE i \in firstBad : TRUE] = NotFound THEN 404 ELSE 500)}
        ELSE IF classId.given /\ ~IsArray(old) THEN {Fail(500)}
        ELSE IF semester = "0" THEN {Out(500, C1, Student, Professor)}
        ELSE {Out(200, C1, S1, Professor)}

\* ------------------------------------------------------------------------
\* Requests
\* ------------------------------------------------------------------------
ClassRefs == ClassIds
StudentRefs == StudentIds \cup {BadId}
ProfessorRefs == ProfessorIds \cup {BadId}
\* classId values of addStudent / updateStudent bodies
ClassIdValues == ClassIds \cup {"1", BadId}
EnrollmentValues == {NoValue, "e1", "e2"}
UpdateEnrollmentValues == {NoValue, "e1"}
SemesterValues == {NoValue, "0"}

NoRequest == [op |-> "none", hod |-> "", id |-> "", ids |-> <<>>, status |-> 0]

Log(op, hodId, id, ids, status) ==
  IF audit
    THEN [op |-> op, hod |-> hodId, id |-> id, ids |-> ids, status |-> status]
    ELSE NoRequest

Respond(op, hodId, id, ids, outs) ==
  \E o \in outs :
    /\ Class' = o.Class
    /\ Student' = o.Student
    /\ Professor' = o.Professor
    /\ last' = Log(op, hodId, id, ids, o.status)
    /\ prev' = IF audit THEN Roster ELSE prev
    /\ UNCHANGED <<audit, Attendance, calls, HOD, Counter, clock>>

AssignStudentsToClass ==
  \E h \in HodIds, c \in ClassRefs, ids \in IdLists(StudentRefs) :
    /\ Respond("assignStudentsToClass", h, c, ids, assignStudentsToClass(h, c, ids))
    /\ UNCHANGED allocated

RemoveStudentsFromClass ==
  \E h \in HodIds, c \in ClassRefs, ids \in IdLists(StudentRefs) :
    /\ Respond("removeStudentsFromClass", h, c, ids, removeStudentsFromClass(h, c, ids))
    /\ UNCHANGED allocated

AssignProfessorsToClass ==
  \E h \in HodIds, c \in ClassRefs, ids \in IdLists(ProfessorRefs) :
    /\ Respond("assignProfessorsToClass", h, c, ids, assignProfessorsToClass(h, c, ids))
    /\ UNCHANGED allocated

RemoveProfessorsFromClass ==
  \E h \in HodIds, c \in ClassRefs, ids \in IdLists(ProfessorRefs) :
    /\ Respond("removeProfessorsFromClass", h, c, ids,
               removeProfessorsFromClass(h, c, ids))
    /\ UNCHANGED allocated

DeleteClass ==
  \E h \in HodIds, c \in ClassRefs :
    /\ Respond("deleteClass", h, c, <<>>, deleteClass(h, c))
    /\ UNCHANGED allocated

BulkDeleteClasses ==
  \E h \in HodIds, ids \in IdLists(ClassIds \cup {BadId}) :
    /\ Respond("bulkDeleteClasses", h, "", ids, bulkDeleteClasses(h, ids))
    /\ UNCHANGED allocated

DeleteStudent ==
  \E h \in HodIds, s \in StudentRefs :
    /\ Respond("deleteStudent", h, s, <<>>, deleteStudent(h, s))
    /\ UNCHANGED allocated

DeleteStudentsBulk ==
  \E h \in HodIds, ids \in IdLists(StudentRefs) :
    /\ Respond("deleteStudentsBulk", h, "", ids, deleteStudentsBulk(h, ids))
    /\ UNCHANGED allocated

DeleteProfessor ==
  \E h \in HodIds, p \in ProfessorRefs :
    /\ Respond("deleteProfessor", h, p, <<>>, deleteProfessor(h, p))
    /\ UNCHANGED allocated

BulkDeleteProfessors ==
  \E h \in HodIds, ids \in IdLists(ProfessorRefs) :
    /\ Respond("bulkDeleteProfessors", h, "", ids, bulkDeleteProfessors(h, ids))
    /\ UNCHANGED allocated

AddStudent ==
  \E h \in HodIds, e \in EnrollmentValues, c \in ClassIdValues \cup {NoValue},
     newId \in StudentIds \ allocated :
    /\ Respond("addStudent", h, newId, <<e, c>>, addStudent(h, e, c, newId))
    /\ allocated' = IF newId \in DOMAIN Student' THEN allocated \cup {newId} ELSE allocated

UpdateStudent ==
  \E h \in HodIds, s \in StudentRefs, e \in UpdateEnrollmentValues, sem \in SemesterValues,
     given \in BOOLEAN, ids \in IdLists(ClassIdValues) :
    /\ given \/ ids = <<>>
    /\ Respond("updateStudent", h, s, ids,
               updateStudent(h, s, e, [given |-> given, ids |-> ids], sem))
    /\ UNCHANGED allocated

\* ------------------------------------------------------------------------
\* hod.model: the account document of a tenant
\* ------------------------------------------------------------------------
\* A one-time code slot { code, expiresAt } that holds nothing.
NoOtp == [code |-> NoValue, expiresAt |-> 0]
\* The nested path pendingUpdates of the schema: email and password only.
NoPending == [email |-> NoValue, password |-> NoValue]

\* bcrypt.hash of the pre('save') hook
Hash(x) ==
  CASE x = "pw0" -> "bcrypt(pw0)"
    [] x = "pw1" -> "bcrypt(pw1)"
    [] x = "alt0" -> "bcrypt(alt0)"
    [] x = "alt1" -> "bcrypt(alt1)"
    [] OTHER -> "bcrypt(?)"

NewHOD(email) ==
  [email |-> email, password |-> Hash("pw0"), altPassword |-> Hash("alt0"),
   verified |-> TRUE, otp |-> NoOtp, deleteOtp |-> NoOtp, pendingUpdates |-> NoPending]

\* Two verified tenants; tenant hA has created its two classes.
InitTenants ==
  /\ HOD = [h \in HodIds |-> NewHOD(IF h = "hA" THEN "a@x.io" ELSE "b@x.io")]
  /\ Counter = [h \in {"hA"} |-> 2]
  /\ clock = 0

\* ------------------------------------------------------------------------
\* Initial store: two tenants with their classes, students and professors,
\* nobody assigned to a class yet.
\* ------------------------------------------------------------------------
NewClass(n, h) == [classId |-> n, createdBy |-> h, students |-> {}, professors |-> {}]
NewStudent(e, h) == [enrollmentNumber |-> e, createdBy |-> h, classIds |-> {}]
NewProfessor(h) == [createdBy |-> h, classes |-> {}]
Idle == [pc |-> "idle"]

InitStore ==
  /\ Class = [c \in ClassIds |-> IF c = "c1" THEN NewClass(1, "hA") ELSE NewClass(2, "hA")]
  /\ Student = [s \in {"s1", "s3"} |->
                IF s = "s1" THEN NewStudent("e1", "hA") ELSE NewStudent("e3", "hB")]
  /\ Professor = [p \in ProfessorIds |->
                IF p = "p3" THEN NewProfessor("hB") ELSE NewProfessor("hA")]
  /\ allocated = ClassIds \cup {"s1", "s3"} \cup ProfessorIds
  /\ last = NoRequest
  /\ prev = Roster
  /\ Attendance = EmptyBag
  /\ calls = [i \in CallIds |-> Idle]
  /\ InitTenants

\* The student roster under every operation that changes it.
InitStudentRoster == InitStore /\ audit = FALSE
NextStudentRoster ==
  \/ AddStudent
  \/ UpdateStudent
  \/ AssignStudentsToClass
  \/ RemoveStudentsFromClass
  \/ DeleteClass
  \/ BulkDeleteClasses
  \/ DeleteStudent
  \/ DeleteStudentsBulk
SpecStudentRoster == InitStudentRoster /\ [][NextStudentRoster]_vars

\* The professor roster under every operation that changes it.
InitProfessorRoster == InitStore /\ audit = TRUE
NextProfessorRoster ==
  \/ AssignProfessorsToClass
  \/ RemoveProfessorsFromClass
  \/ DeleteClass
  \/ BulkDeleteClasses
  \/ DeleteProfessor
  \/ BulkDeleteProfessors
SpecProfessorRoster == InitProfessorRoster /\ [][NextProfessorRoster]_vars


\* Single membership calls and their responses, from a store where tenant hA
\* has two students and tenant hB one.
InitMembers ==
  /\ Class = [c \in ClassIds |-> IF c = "c1" THEN NewClass(1, "hA") ELSE NewClass(2, "hA")]
  /\ Student = [s \in StudentIds |->
                IF s = "s1" THEN NewStudent("e1", "hA")
                ELSE IF s = "s2" THEN NewStudent("e2", "hA") ELSE NewStudent("e3", "hB")]
  /\ Professor = [p \in ProfessorIds |->
                IF p = "p3" THEN NewProfessor("hB") ELSE NewProfessor("hA")]
  /\ allocated = ClassIds \cup StudentIds \cup ProfessorIds
  /\ last = NoRequest
  /\ prev = Roster
  /\ Attendance = EmptyBag
  /\ calls = [i \in CallIds |-> Idle]
  /\ InitTenants
  /\ audit = TRUE

NextStudentCalls ==
  \/ AssignStudentsToClass
  \/ RemoveStudentsFromClass
  \/ DeleteClass
SpecStudentCalls == InitMembers /\ [][NextStudentCalls]_vars

NextAssign ==
  \/ AssignStudentsToClass
  \/ AssignProfessorsToClass
  \/ DeleteClass
SpecAssign == InitMembers /\ [][NextAssign]_vars

\* ------------------------------------------------------------------------
\* attendance.controller: markBulkAttendance
\* The notification stage that follows the write reads the class and the
\* students and touches only Student.fcmTokens; it never changes the
\* response or the attendance collection.
\* ------------------------------------------------------------------------
\* An access check that looks at the owner of the class only.
ClassOwnerOnly(professorId, hodId, classId) ==
  IF ~ClassOwned(classId, hodId) THEN 404 ELSE 200
verifyProfessorAccessToClass(professorId, hodId, classId) ==
  IF ~ClassOwned(classId, hodId) THEN 404
  ELSE IF Class[classId].professors # {} /\ professorId \notin Class[classId].professors
    THEN 403
  ELSE 200

\* JavaScript's Number() of a request value; 0 stands for NaN.
Number(x) ==
  IF x = "1" THEN 1 ELSE IF x = "2" THEN 2 ELSE IF x = "1000" THEN 1000 ELSE 0

\* 0 stands for null and NaN: no usable date in the request.
resolveDateMs(dateMs) == IF dateMs = NoValue THEN 0 ELSE Number(dateMs)

Earlier(records, i) == {j \in 1..(i - 1) : records[j].studentId = records[i].studentId}
Later(records, i) == {j \in i..Len(records) : records[j].studentId = records[i].studentId}

\* A skipped list that holds the invalid studentIds only.
SkippedInvalidOnly(records) ==
  LET F[i \in 0..Len(records)] ==
        IF i = 0 THEN <<>>
        ELSE IF ~ObjectIdIsValid(records[i].studentId)
          THEN Append(F[i - 1], records[i].studentId)
        ELSE F[i - 1]
  IN  F[Len(records)]

\* One push for every record with an invalid studentId and for every record
\* whose studentId the map already holds.
skippedStudentIds(records) ==
  LET F[i \in 0..Len(records)] ==
        IF i = 0 THEN <<>>
        ELSE IF ~ObjectIdIsValid(records[i].studentId) \/ Earlier(records, i) # {}
          THEN Append(F[i - 1], records[i].studentId)
        ELSE F[i - 1]
  IN  F[Len(records)]

\* A map that keeps the value it was given first.
FirstValue(records, i) == records[i]
\* dedupedMap.set(rec.studentId, rec): the value the map ends with for the key
\* first set at position i is the record that set it last.
MapValue(records, i) ==
  records[CHOOSE j \in Later(records, i) : \A k \in Later(records, i) : k <= j]

\* Array.from(dedupedMap.values()): a key stays where it was first inserted.
dedupedRecords(records) ==
  LET F[i \in 0..Len(records)] ==
        IF i = 0 THEN <<>>
        ELSE IF ObjectIdIsValid(records[i].studentId) /\ Earlier(records, i) = {}
          THEN Append(F[i - 1], MapValue(records, i))
        ELSE F[i - 1]
  IN  F[Len(records)]

\* The fields of the unique index { studentId, classId, dateMs, slotNumber }.
AttendanceKey(r) == <<r.studentId, r.classId, r.dateMs, r.slotNumber>>
Matching(A, key) == {r \in BagToSet(A) : AttendanceKey(r) = key}
\* The collection without its unique index.
NoUniqueIndex(A, key) == TRUE
\* The unique index lets a document in when no document has its key.
UniqueIndexAllows(A, key) == Matching(A, key) = {}

\* An update that overwrites the presence only.
SetPresenceOnly(A, r, isPresent, markedBy) ==
  (A (-) SetToBag({r})) (+) SetToBag({[r EXCEPT !.isPresent = isPresent]})
\* An update that overwrites the marker only.
SetMarkedByOnly(A, r, isPresent, markedBy) ==
  (A (-) SetToBag({r})) (+) SetToBag({[r EXCEPT !.markedBy = markedBy]})
\* update: { $set: { isPresent, markedBy } } on the document r
SetMark(A, r, isPresent, markedBy) ==
  (A (-) SetToBag({r}))
    (+) SetToBag({[r EXCEPT !.isPresent = isPresent, !.markedBy = markedBy]})

\* upsert insert: the $setOnInsert key fields and the $set fields
InsertMark(A, key, isPresent, markedBy) ==
  A (+) SetToBag({[studentId |-> key[1], classId |-> key[2], dateMs |-> key[3],
                   slotNumber |-> key[4], isPresent |-> isPresent,
                   markedBy |-> markedBy]})

OpKey(rec, classId, dateMs, slotNumber) == <<rec.studentId, classId, dateMs, slotNumber>>

\* One updateOne of the bulkWrite with nothing running beside it.
UpsertOne(A, key, isPresent, markedBy) ==
  IF Matching(A, key) # {}
    THEN SetMark(A, CHOOSE r \in Matching(A, key) : TRUE, isPresent, markedBy)
    ELSE InsertMark(A, key, isPresent, markedBy)

\* Attendance.bulkWrite(ops): ordered, one op after the other.
bulkWrite(A, recs, classId, dateMs, slotNumber, markedBy) ==
  LET F[i \in 0..Len(recs)] ==
        IF i = 0 THEN A
        ELSE UpsertOne(F[i - 1], OpKey(recs[i], classId, dateMs, slotNumber),
                       recs[i].isPresent, markedBy)
  IN  F[Len(recs)]

\* The status the handler returns before it writes anything, 200 when it
\* goes on to the write.
markBulkAttendanceChecks(professorId, classId, slotNumber, dateMs, records) ==
  IF classId = NoValue \/ slotNumber = NoValue THEN 400
  ELSE IF Len(records) = 0 THEN 400
  ELSE IF resolveDateMs(dateMs) = 0 THEN 400
  ELSE IF ~ObjectIdIsValid(classId) THEN 500
  ELSE verifyProfessorAccessToClass(professorId, Professor[professorId].createdBy, classId)

\* The whole handler with no other request running beside it.
markBulkAttendance(professorId, classId, slotNumber, dateMs, records) ==
  LET st == markBulkAttendanceChecks(professorId, classId, slotNumber, dateMs, records)
  IN  IF st # 200
        THEN [status |-> st, Attendance |-> Attendance, savedCount |-> 0,
              skippedStudentIds |-> <<>>]
        ELSE [status |-> 200,
              Attendance |-> bulkWrite(Attendance, dedupedRecords(records), classId,
                                       resolveDateMs(dateMs), Number(slotNumber),
                                       professorId),
              savedCount |-> Len(dedupedRecords(records)),
              skippedStudentIds |-> skippedStudentIds(records)]

\* Requests of markBulkAttendance
\* The entries a records[] list is drawn from: a student of tenant hA marked
\* present or absent, a student of tenant hB, a malformed studentId.
RecordValues ==
  {[studentId |-> "s1", isPresent |-> TRUE], [studentId |-> "s1", isPresent |-> FALSE],
   [studentId |-> "s3", isPresent |-> TRUE], [studentId |-> BadId, isPresent |-> TRUE]}
RecordLists == UNION {[1..n -> RecordValues] : n \in 0..MaxRecords}
DateMsValues == {"1000"}
SlotNumbers == {"1"}

LogMark(professorId, classId, slotNumber, dateMs, records, o) ==
  IF audit
    THEN [op |-> "markBulkAttendance", professorId |-> professorId, classId |-> classId,
          slotNumber |-> slotNumber, dateMs |-> dateMs, records |-> records,
          status |-> o.status, savedCount |-> o.savedCount,
          skippedStudentIds |-> o.skippedStudentIds]
    ELSE NoRequest

\* One markBulkAttendance request served from start to end.
MarkBulkAttendance ==
  \E p \in ProfessorIds, c \in ClassIds, slot \in SlotNumbers, d \in DateMsValues,
     records \in RecordLists :
    \E o \in {markBulkAttendance(p, c, slot, d, records)} :
      /\ Attendance' = o.Attendance
      /\ last' = LogMark(p, c, slot, d, records, o)
      /\ prev' = IF audit THEN [Attendance |-> Attendance] ELSE prev
      /\ UNCHANGED <<Class, Student, Professor, allocated, audit, calls, HOD, Counter, clock>>

\* --- the same handler as the steps that interleave with other calls -------
\* A call that passed its checks holds the ops of its bulkWrite still to run.
Begin(i) ==
  /\ calls[i].pc = "idle"
  /\ \E p \in ProfessorIds, c \in ClassIds, slot \in SlotNumbers, d \in DateMsValues,
        records \in RecordLists :
       LET st == markBulkAttendanceChecks(p, c, slot, d, records)
           ops == dedupedRecords(records)
       IN  calls' = [calls EXCEPT ![i] =
                       IF st # 200 \/ ops = <<>> THEN Idle
                       ELSE [pc |-> "find", professorId |-> p, classId |-> c,
                             dateMs |-> resolveDateMs(d), slotNumber |-> Number(slot),
                             ops |-> ops, found |-> FALSE]]
  /\ UNCHANGED <<Class, Student, Professor, allocated, last, prev, audit, Attendance,
               HOD, Counter, clock>>

HeadKey(call) == OpKey(Head(call.ops), call.classId, call.dateMs, call.slotNumber)

\* The call with its first op done: the next op, or the response.
Advance(call) == IF Len(call.ops) = 1 THEN Idle
                 ELSE [call EXCEPT !.pc = "find", !.ops = Tail(@), !.found = FALSE]

\* The upsert looks for a document that matches its filter.
Find(i) ==
  /\ calls[i].pc = "find"
  /\ calls' = [calls EXCEPT ![i].pc = "write",
                            ![i].found = Matching(Attendance, HeadKey(calls[i])) # {}]
  /\ UNCHANGED <<Class, Student, Professor, allocated, last, prev, audit, Attendance,
               HOD, Counter, clock>>

\* It updates the document it found, or inserts one.  An insert the unique
\* index rejects is retried as an update by the server, or fails the
\* bulkWrite with E11000: the handler then answers 500 and the ops that ran
\* before stay written.
Write(i) ==
  LET call == calls[i]
      key == HeadKey(call)
      isPresent == Head(call.ops).isPresent
  IN  /\ call.pc = "write"
      /\ \/ /\ call.found
            /\ Attendance' = SetMark(Attendance, CHOOSE r \in Matching(Attendance, key) : TRUE,
                                     isPresent, call.professorId)
            /\ calls' = [calls EXCEPT ![i] = Advance(call)]
         \/ /\ ~call.found
            /\ UniqueIndexAllows(Attendance, key)
            /\ Attendance' = InsertMark(Attendance, key, isPresent, call.professorId)
            /\ calls' = [calls EXCEPT ![i] = Advance(call)]
         \/ /\ ~call.found
            /\ ~UniqueIndexAllows(Attendance, key)
            /\ Attendance' = SetMark(Attendance, CHOOSE r \in Matching(Attendance, key) : TRUE,
                                     isPresent, call.professorId)
            /\ calls' = [calls EXCEPT ![i] = Advance(call)]
         \/ /\ ~call.found
            /\ ~UniqueIndexAllows(Attendance, key)
            /\ UNCHANGED Attendance
            /\ calls' = [calls EXCEPT ![i] = Idle]
      /\ UNCHANGED <<Class, Student, Professor, allocated, last, prev, audit,
                   HOD, Counter, clock>>

\* The store the attendance requests run against: class c1 is assigned to
\* professor p1, class c2 has no professor list, both belong to tenant hA.
InitAttendanceStore ==
  /\ Class = [c \in ClassIds |->
                IF c = "c1" THEN [NewClass(1, "hA") EXCEPT !.professors = {"p1"}]
                ELSE NewClass(2, "hA")]
  /\ Student = [s \in {"s1", "s3"} |->
                IF s = "s1" THEN NewStudent("e1", "hA") ELSE NewStudent("e3", "hB")]
  /\ Professor = [p \in ProfessorIds |->
                IF p = "p1" THEN [NewProfessor("hA") EXCEPT !.classes = {"c1"}]
                ELSE IF p = "p2" THEN NewProfessor("hA") ELSE NewProfessor("hB")]
  /\ allocated = ClassIds \cup {"s1", "s3"} \cup ProfessorIds
  /\ last = NoRequest
  /\ prev = Roster
  /\ Attendance = EmptyBag
  /\ calls = [i \in CallIds |-> Idle]
  /\ InitTenants

\* markBulkAttendance requests served one after another.
InitAttendance == InitAttendanceStore /\ audit = TRUE
NextAttendance == MarkBulkAttendance
SpecAttendance == InitAttendance /\ [][NextAttendance]_vars

\* markBulkAttendance requests served concurrently.
InitAttendanceRace == InitAttendanceStore /\ audit = FALSE
NextAttendanceRace == \E i \in CallIds : Begin(i) \/ Find(i) \/ Write(i)
SpecAttendanceRace == InitAttendanceRace /\ [][NextAttendanceRace]_vars

\* ------------------------------------------------------------------------
\* Properties of markBulkAttendance
\* ------------------------------------------------------------------------
\* The request of the latest response, when it was a served markBulkAttendance.
Marked == last.op = "markBulkAttendance" /\ last.status = 200
MarkedKey(rec) ==
  <<rec.studentId, last.classId, Number(last.dateMs), Number(last.slotNumber)>>
\* The positions of last.records that carry a well-formed studentId.
MarkedValid == {i \in DOMAIN last.records : ObjectIdIsValid(last.records[i].studentId)}
Occurrences(i) ==
  {j \in DOMAIN last.records : last.records[j].studentId = last.records[i].studentId}
LastOccurrence(i) == CHOOSE j \in Occurrences(i) : \A k \in Occurrences(i) : k <= j
Count(seq, x) == Cardinality({i \in DOMAIN seq : seq[i] = x})

\* C1: whatever markBulkAttendance calls have run, one after the other or
\* interleaved, the attendance collection holds at most one document for
\* each (studentId, classId, dateMs, slotNumber).
C1_OneRecordPerKey ==
  \A r \in BagToSet(Attendance) :
    /\ CopiesIn(r, Attendance) = 1
    /\ Matching(Attendance, AttendanceKey(r)) = {r}

\* A call found no document for its key and is about to insert one, while
\* another call has inserted a document for that key in between.
C1_Witness ==
  \E i \in CallIds :
    /\ calls[i].pc = "write"
    /\ ~calls[i].found
    /\ Matching(Attendance, HeadKey(calls[i])) # {}

\* C2: when a served call writes a key that an earlier call had written, one
\* document exists for the key afterwards, it carries the presence of this
\* call and this call's professor as markedBy, and the collection has grown
\* only by the keys the call wrote for the first time (by none when every
\* key it wrote existed).
C2_RemarkOverwrites ==
  Marked =>
    /\ \A i \in MarkedValid :
         LET key == MarkedKey(last.records[i])
         IN  Matching(prev.Attendance, key) # {} =>
               \E r \in BagToSet(Attendance) :
                 /\ Matching(Attendance, key) = {r}
                 /\ CopiesIn(r, Attendance) = 1
                 /\ r.isPresent = last.records[LastOccurrence(i)].isPresent
                 /\ r.markedBy = last.professorId
    /\ BagCardinality(Attendance) =
         BagCardinality(prev.Attendance)
           + Cardinality({MarkedKey(last.records[i]) : i \in
                           {j \in MarkedValid :
                              Matching(prev.Attendance, MarkedKey(last.records[j])) = {}}})

\* Professor p1 had marked s1 present in class c2; professor p2 has now
\* marked s1 absent for the same class, date and slot.
C2_Witness ==
  /\ Marked
  /\ last.professorId = "p2"
  /\ last.classId = "c2"
  /\ last.records = <<[studentId |-> "s1", isPresent |-> FALSE]>>
  /\ \E r \in BagToSet(prev.Attendance) :
       /\ AttendanceKey(r) = <<"s1", "c2", 1000, 1>>
       /\ r.isPresent
       /\ r.markedBy = "p1"
  /\ BagCardinality(Attendance) = BagCardinality(prev.Attendance)

\* C3: in a served call, a well-formed studentId that occurs several times in
\* records is stored with the presence of its last occurrence, and
\* skippedStudentIds names it once for each occurrence but the first.
C3_LastOccurrenceWins ==
  Marked =>
    \A i \in MarkedValid :
      /\ \E r \in BagToSet(Attendance) :
           /\ AttendanceKey(r) = MarkedKey(last.records[i])
           /\ r.isPresent = last.records[LastOccurrence(i)].isPresent
      /\ Count(last.skippedStudentIds, last.records[i].studentId)
           = Cardinality(Occurrences(i)) - 1

\* records = [{s1, present}, {s1, absent}] was served: s1 is stored absent
\* and reported once as skipped.
C3_Witness ==
  /\ Marked
  /\ last.records = <<[studentId |-> "s1", isPresent |-> TRUE],
                      [studentId |-> "s1", isPresent |-> FALSE]>>
  /\ last.skippedStudentIds = <<"s1">>
  /\ last.savedCount = 1
  /\ \E r \in BagToSet(Attendance) :
       AttendanceKey(r) = MarkedKey(last.records[1]) /\ ~r.isPresent

\* C4: every attendance document names a student and a class that exist and
\* belong to the tenant of the professor who marked it.
C4_MarksStayInsideTenant ==
  \A r \in BagToSet(Attendance) :
    /\ r.studentId \in DOMAIN Student
    /\ Student[r.studentId].createdBy = Professor[r.markedBy].createdBy
    /\ r.classId \in DOMAIN Class
    /\ Class[r.classId].createdBy = Professor[r.markedBy].createdBy

\* ------------------------------------------------------------------------
\* Properties of the class memberships
\* ------------------------------------------------------------------------
\* The ids an array field holds; a field that holds null holds none.
Ids(v) == IF IsArray(v) THEN v ELSE {}

\* C5: after every operation on the student roster, a student is in a
\* class's students exactly when the class is in the student's classIds, and
\* both fields name only documents that exist.
C5_StudentRosterConsistent ==
  /\ \A c \in DOMAIN Class, s \in DOMAIN Student :
       s \in Class[c].students <=> c \in Ids(Student[s].classIds)
  /\ \A c \in DOMAIN Class : Class[c].students \subseteq DOMAIN Student
  /\ \A s \in DOMAIN Student : Ids(Student[s].classIds) \subseteq DOMAIN Class

\* C6: after every operation on the professor roster, a professor is in a
\* class's professors exactly when the class is in the professor's classes,
\* and both fields name only documents that exist.
C6_ProfessorRosterConsistent ==
  /\ \A c \in DOMAIN Class, p \in DOMAIN Professor :
       p \in Class[c].professors <=> c \in Professor[p].classes
  /\ \A c \in DOMAIN Class : Class[c].professors \subseteq DOMAIN Professor
  /\ \A p \in DOMAIN Professor : Professor[p].classes \subseteq DOMAIN Class

\* A professor who was assigned to a class has been deleted, and another
\* professor is still assigned to a class.
C6_Witness ==
  /\ last.op = "deleteProfessor"
  /\ last.status = 200
  /\ prev.Professor[last.id].classes # {}
  /\ \E p \in DOMAIN Professor : Professor[p].classes # {}

\* The class of the latest request was the caller's when the request arrived.
LastClassOwned ==
  last.id \in DOMAIN prev.Class /\ prev.Class[last.id].createdBy = last.hod
\* Every id of the latest request is well formed.
LastIdsValid == \A i \in DOMAIN last.ids : ObjectIdIsValid(last.ids[i])
\* The student was the caller's when the request arrived.
LastStudentOwned(s) ==
  s \in DOMAIN prev.Student /\ prev.Student[s].createdBy = last.hod
LastProfessorOwned(p) ==
  p \in DOMAIN prev.Professor /\ prev.Professor[p].createdBy = last.hod
\* The student was outside the class of the latest request when it arrived.
LastOutside(s) ==
  /\ s \notin prev.Class[last.id].students
  /\ s \in DOMAIN prev.Student => last.id \notin Ids(prev.Student[s].classIds)

\* C7: when assignStudentsToClass(C, [S1, S2]) ran on a class and two
\* students of the caller that were not in the class, and
\* removeStudentsFromClass(C, [S1]) runs next, the class is left with S2
\* alone, S1 without the class and S2 with it.
C7_AssignThenRemove ==
  [][(/\ last.op = "assignStudentsToClass"
      /\ Len(last.ids) = 2
      /\ last.ids[1] # last.ids[2]
      /\ LastClassOwned
      /\ \A i \in 1..2 : LastStudentOwned(last.ids[i]) /\ LastOutside(last.ids[i])
      /\ prev.Class[last.id].students = {}
      /\ last'.op = "removeStudentsFromClass"
      /\ last'.hod = last.hod
      /\ last'.id = last.id
      /\ last'.ids = <<last.ids[1]>>)
     => /\ Class'[last.id].students = {last.ids[2]}
        /\ last.id \notin Ids(Student'[last.ids[1]].classIds)
        /\ last.id \in Ids(Student'[last.ids[2]].classIds)]_vars

C9_AssignIsSetUnion ==
  (/\ last.op = "assignStudentsToClass"
   /\ Len(last.ids) > 0
   /\ LastClassOwned
   /\ \A i \in DOMAIN last.ids : LastStudentOwned(last.ids[i]))
  => /\ last.status = 200
     /\ Class[last.id].students = prev.Class[last.id].students \cup Range(last.ids)
     /\ \A s \in DOMAIN Student :
          Ids(Student[s].classIds) =
            IF s \in Range(last.ids)
              THEN Ids(prev.Student[s].classIds) \cup {last.id}
              ELSE Ids(prev.Student[s].classIds)

\* C10: removeStudentsFromClass on a class of the caller with well-formed ids
\* of students that are not in the class succeeds and changes nothing.
C10_RemoveAbsentIsNoOp ==
  (/\ last.op = "removeStudentsFromClass"
   /\ Len(last.ids) > 0
   /\ LastIdsValid
   /\ LastClassOwned
   /\ \A i \in DOMAIN last.ids : LastOutside(last.ids[i]))
  => last.status = 200 /\ Roster = prev

\* ------------------------------------------------------------------------
\* Tenant deletion: sendDeleteOTP, confirmDeleteHOD and the cascade of the
\* HOD model's findOneAndDelete hook
\* ------------------------------------------------------------------------
\* Latest value of clock.
MaxClock == 3
\* OTP_EXPIRY_MINUTES || 10, one tick of clock being five minutes.
OtpLifetime == 2
\* The six-digit codes Math.random can produce.
OtpCodes == {"111111", "222222"}

generateOTP(code) == [code |-> code, expiresAt |-> clock + OtpLifetime]

\* A check that accepts every code.
AnyCodeValid(inputOTP, storedOTP, expiresAt) == "valid"
verifyOTP(inputOTP, storedOTP, expiresAt) ==
  IF storedOTP = NoValue \/ expiresAt = 0 THEN "invalid"
  ELSE IF inputOTP # storedOTP THEN "invalid"
  ELSE IF clock > expiresAt THEN "expired"
  ELSE "valid"

\* One outcome of a tenant request: the HTTP status and every collection.
Store ==
  [HOD |-> HOD, Class |-> Class, Student |-> Student, Professor |-> Professor,
   Counter |-> Counter, Attendance |-> Attendance]
Answer(st, store) == [status |-> st, store |-> store]

\* hod.deleteOtp = { code, expiresAt }; await hod.save(); the mail is sent
\* after the save, so a mail that fails leaves the code stored.
sendDeleteOTP(hodId, code, mailFails) ==
  IF hodId \notin DOMAIN HOD THEN Answer(404, Store)
  ELSE Answer(IF mailFails THEN 500 ELSE 200,
              [Store EXCEPT !.HOD = [HOD EXCEPT ![hodId].deleteOtp = generateOTP(code)]])

\* The five deletes that cascadeDelete hands to Promise.all.
CascadeSteps == {"Professor", "Student", "Class", "Counter", "Attendance"}

Drop(F, ids) == [x \in DOMAIN F \ ids |-> F[x]]
\* Attendance.deleteMany({ $or: [studentId $in, classId $in, markedBy $in] })
AttendanceDeleteMany(A, studentIds, classIds, professorIds) ==
  [r \in {x \in BagToSet(A) : /\ x.studentId \notin studentIds
                              /\ x.classId \notin classIds
                              /\ x.markedBy \notin professorIds} |-> A[r]]

\* cascadeDelete(hodId): the ids are read first, then the five deletes run
\* side by side without a session; the deletes in `failed` reject, the
\* others are applied all the same.
cascadeDelete(hodId, failed) ==
  LET professorIds == {x \in DOMAIN Professor : Professor[x].createdBy = hodId}
      studentIds == {x \in DOMAIN Student : Student[x].createdBy = hodId}
      classIds == {x \in DOMAIN Class : Class[x].createdBy = hodId}
  IN  [Store EXCEPT
         !.Professor = IF "Professor" \in failed THEN @ ELSE Drop(@, professorIds),
         !.Student = IF "Student" \in failed THEN @ ELSE Drop(@, studentIds),
         !.Class = IF "Class" \in failed THEN @ ELSE Drop(@, classIds),
         !.Counter = IF "Counter" \in failed THEN @ ELSE Drop(@, {hodId}),
         !.Attendance = IF "Attendance" \in failed THEN @
                        ELSE AttendanceDeleteMany(@, studentIds, classIds, professorIds)]

\* HOD.findByIdAndDelete(hodId): the pre hook runs the cascade and hands its
\* error to the query; the document is deleted when the hook succeeded and
\* the delete itself does not fail.
findByIdAndDelete(hodId, failed, deleteFails) ==
  LET after == cascadeDelete(hodId, failed)
  IN  IF failed # {} \/ deleteFails THEN Answer(500, after)
      ELSE Answer(200, [after EXCEPT !.HOD = Drop(@, {hodId})])

\* confirmDeleteHOD.  hod.deleteOtp is a nested path and never falsy: a
\* tenant with no code stored is answered by verifyOTP's "invalid".
confirmDeleteHOD(hodId, otp, failed, deleteFails) ==
  IF hodId \notin DOMAIN HOD THEN Answer(404, Store)
  ELSE LET status == verifyOTP(otp, HOD[hodId].deleteOtp.code, HOD[hodId].deleteOtp.expiresAt)
       IN  IF status = "invalid" THEN Answer(400, Store)
           ELSE IF status = "expired"
             THEN Answer(400, [Store EXCEPT !.HOD = [HOD EXCEPT ![hodId].deleteOtp = NoOtp]])
           ELSE findByIdAndDelete(hodId, failed, deleteFails)

LogTenant(op, hodId, otp, status) ==
  [op |-> op, hod |-> hodId, id |-> otp, ids |-> <<>>, status |-> status]

RespondTenant(op, hodId, otp, o) ==
  /\ HOD' = o.store.HOD
  /\ Class' = o.store.Class
  /\ Student' = o.store.Student
  /\ Professor' = o.store.Professor
  /\ Counter' = o.store.Counter
  /\ Attendance' = o.store.Attendance
  /\ last' = LogTenant(op, hodId, otp, o.status)
  /\ UNCHANGED <<allocated, prev, audit, calls, clock>>

SendDeleteOTP ==
  \E h \in HodIds, code \in OtpCodes, mailFails \in BOOLEAN :
    RespondTenant("sendDeleteOTP", h, code, sendDeleteOTP(h, code, mailFails))

\* At most one delete of a request fails, and faults are drawn only where
\* the handler reaches the delete.
ConfirmDeleteHOD ==
  \E h \in HodIds, otp \in OtpCodes \cup {NoValue},
     failed \in {{}} \cup {{x} : x \in CascadeSteps}, deleteFails \in BOOLEAN :
    /\ deleteFails => failed = {}
    /\ (failed # {} \/ deleteFails) =>
         /\ h \in DOMAIN HOD
         /\ verifyOTP(otp, HOD[h].deleteOtp.code, HOD[h].deleteOtp.expiresAt) = "valid"
    /\ RespondTenant("confirmDeleteHOD", h, otp, confirmDeleteHOD(h, otp, failed, deleteFails))

Tick ==
  /\ clock < MaxClock
  /\ clock' = clock + 1
  /\ UNCHANGED <<Class, Student, Professor, allocated, last, prev, audit, Attendance,
                 calls, HOD, Counter>>

\* A middleware that lets every existing tenant through.
authorizeAnyHOD(hodId) == hodId \in DOMAIN HOD
\* authorizeHOD: the tenant of the token exists and is verified.
authorizeHOD(hodId) == hodId \in DOMAIN HOD /\ HOD[hodId].verified
\* authorizeProfessor: the professor of the token exists.
authorizeProfessor(professorId) == professorId \in DOMAIN Professor

\* The roster requests a tenant makes before its account is deleted.
TenantDeleteClass ==
  \E h \in HodIds, c \in ClassIds :
    /\ authorizeHOD(h)
    /\ Respond("deleteClass", h, c, <<>>, deleteClass(h, c))
    /\ UNCHANGED allocated
TenantDeleteStudent ==
  \E h \in HodIds, x \in StudentIds :
    /\ authorizeHOD(h)
    /\ Respond("deleteStudent", h, x, <<>>, deleteStudent(h, x))
    /\ UNCHANGED allocated
TenantDeleteProfessor ==
  \E h \in HodIds, x \in ProfessorIds :
    /\ authorizeHOD(h)
    /\ Respond("deleteProfessor", h, x, <<>>, deleteProfessor(h, x))
    /\ UNCHANGED allocated

\* A professor marks one student of class c1 present.
TenantMark ==
  \E x \in ProfessorIds, c \in {"c1"}, st \in {"s1", "s3"} :
    /\ authorizeProfessor(x)
    /\ \E o \in {markBulkAttendance(x, c, "1", "1000",
                                    <<[studentId |-> st, isPresent |-> TRUE]>>)} :
         /\ Attendance' = o.Attendance
         /\ last' = NoRequest
         /\ UNCHANGED <<Class, Student, Professor, allocated, prev, audit, calls,
                        HOD, Counter, clock>>

\* A tenant's roster and attendance requests, then its deletion.
InitTenantDelete == InitAttendanceStore /\ audit = FALSE
NextTenantDelete ==
  \/ SendDeleteOTP
  \/ ConfirmDeleteHOD
  \/ TenantDeleteClass
  \/ TenantDeleteStudent
  \/ TenantDeleteProfessor
  \/ TenantMark
SpecTenantDelete == InitTenantDelete /\ [][NextTenantDelete]_vars

\* Deletion codes requested, confirmed and running out of time.
NextDeleteOtp == SendDeleteOTP \/ ConfirmDeleteHOD \/ Tick
SpecDeleteOtp == InitTenantDelete /\ [][NextDeleteOtp]_vars

\* ------------------------------------------------------------------------
\* Properties of tenant deletion
\* ------------------------------------------------------------------------
\* The tenant every entity of the initial store was created by.
OwnedBy(hodId) ==
  IF hodId = "hA" THEN {"c1", "c2", "s1", "p1", "p2"} ELSE {"s3", "p3"}
Deleted(hodId) ==
  last.op = "confirmDeleteHOD" /\ last.hod = hodId /\ last.status = 200

\* C11: right after confirmDeleteHOD answered 200 for tenant T, no
\* professor, student or class created by T and no counter of T exists, and
\* no attendance document names a student, a class or a marking professor
\* that T owned.
C11_CascadeLeavesNothing ==
  \A h \in HodIds :
    Deleted(h) =>
      /\ \A x \in DOMAIN Professor : Professor[x].createdBy # h
      /\ \A x \in DOMAIN Student : Student[x].createdBy # h
      /\ \A x \in DOMAIN Class : Class[x].createdBy # h
      /\ h \notin DOMAIN Counter
      /\ \A r \in BagToSet(Attendance) :
           {r.studentId, r.classId, r.markedBy} \cap OwnedBy(h) = {}

\* The collections a tenant deletion touches are the same before and after
\* the step.
StoreUnchanged ==
  /\ HOD' = HOD
  /\ Class' = Class
  /\ Student' = Student
  /\ Professor' = Professor
  /\ Counter' = Counter
  /\ Attendance' = Attendance

\* C12: a confirmDeleteHOD whose cascade or final delete failed (it answers
\* 500) leaves the tenant and every collection exactly as they were before
\* the request.
C12_DeletionIsAllOrNothing ==
  [][(last'.op = "confirmDeleteHOD" /\ last'.status = 500) => StoreUnchanged]_vars

\* The code stored for tenant h is one a confirmation would accept now.
Outstanding(h) ==
  /\ HOD[h].deleteOtp.code \in OtpCodes
  /\ clock <= HOD[h].deleteOtp.expiresAt

\* C19: a tenant's document disappears only in a confirmDeleteHOD step for
\* that tenant whose code equals the stored, unexpired deletion code; a
\* deletion code is stored only by sendDeleteOTP; and a confirmDeleteHOD
\* for a tenant with no stored code, with another code or with an expired
\* code deletes nothing from any collection.
C19_DeleteOnlyWithOutstandingCode ==
  [][/\ \A h \in DOMAIN HOD :
          /\ h \notin DOMAIN HOD' =>
               /\ last'.op = "confirmDeleteHOD"
               /\ last'.hod = h
               /\ last'.status = 200
               /\ Outstanding(h)
               /\ last'.id = HOD[h].deleteOtp.code
          /\ (h \in DOMAIN HOD' /\ HOD'[h].deleteOtp # HOD[h].deleteOtp
                /\ HOD'[h].deleteOtp # NoOtp) =>
               /\ last'.op = "sendDeleteOTP"
               /\ last'.hod = h
               /\ HOD'[h].deleteOtp = [code |-> last'.id, expiresAt |-> clock + OtpLifetime]
     /\ (/\ last'.op = "confirmDeleteHOD"
         /\ last'.hod \in DOMAIN HOD
         /\ ~(Outstanding(last'.hod) /\ last'.id = HOD[last'.hod].deleteOtp.code)) =>
          /\ DOMAIN HOD' = DOMAIN HOD
          /\ Class' = Class
          /\ Student' = Student
          /\ Professor' = Professor
          /\ Counter' = Counter
          /\ Attendance' = Attendance
    ]_vars

\* A tenant has been deleted by a confirmation, and the other tenant holds a
\* deletion code that has expired.
C19_Witness ==
  \E h \in HodIds, g \in DOMAIN HOD :
    /\ Deleted(h)
    /\ h \notin DOMAIN HOD
    /\ HOD[g].deleteOtp.code \in OtpCodes
    /\ clock > HOD[g].deleteOtp.expiresAt

\* ------------------------------------------------------------------------
\* class.controller: createClass, as the steps that interleave with other
\* createClass calls
\* ------------------------------------------------------------------------
\* The _ids the driver mints for the classes created here.
FreshClassIds == {"c3", "c4", "c5"}

CounterSeq(hodId) == IF hodId \in DOMAIN Counter THEN Counter[hodId] ELSE 0
InFlight == {i \in CallIds : calls[i].pc \in {"counter", "inc", "create"}}

\* A counter update that writes back the value it read plus one.
StaleSeq(seqRead, seqNow) == seqRead + 1
\* { $inc: { seq: 1 } }: the increment is applied to the stored value.
IncSeq(seqRead, seqNow) == seqNow + 1

\* The unique index { classId, createdBy } lets the document in.
ClassIndexAllows(classId, hodId) ==
  \A c \in DOMAIN Class : ~(Class[c].classId = classId /\ Class[c].createdBy = hodId)

\* The request passed the className / division check; `before` keeps the
\* highest value the tenant's counter had issued when the call arrived.
CreateBegin(i) ==
  /\ calls[i].pc \in {"idle", "done"}
  /\ Cardinality(FreshClassIds \ allocated) > Cardinality(InFlight)
  /\ \E h \in HodIds, given \in BOOLEAN :
       calls' = [calls EXCEPT ![i] =
                   IF ~given THEN [pc |-> "done", hod |-> h, before |-> CounterSeq(h),
                                   read |-> 0, seq |-> 0, status |-> 400, id |-> NoValue]
                   ELSE [pc |-> "counter", hod |-> h, before |-> CounterSeq(h),
                         read |-> 0, seq |-> 0, status |-> 0, id |-> NoValue]]
  /\ UNCHANGED <<Class, Student, Professor, allocated, last, prev, audit, Attendance,
                 HOD, Counter, clock>>

\* Counter.findOneAndUpdate({ hod }, ...) looks for the tenant's counter.
CounterFind(i) ==
  /\ calls[i].pc = "counter"
  /\ calls' = [calls EXCEPT ![i].pc = "inc", ![i].read = CounterSeq(calls[i].hod)]
  /\ UNCHANGED <<Class, Student, Professor, allocated, last, prev, audit, Attendance,
                 HOD, Counter, clock>>

\* It increments the counter it found, or inserts one (upsert).  An insert
\* that meets a counter another call inserted in between is refused by the
\* unique index on hod: the server retries it as an update, or the call
\* fails with E11000 and answers 500.
CounterInc(i) ==
  LET call == calls[i]
      h == call.hod
      got == IncSeq(call.read, CounterSeq(h))
  IN  /\ call.pc = "inc"
      /\ \/ /\ call.read # 0 \/ h \notin DOMAIN Counter
            /\ Counter' = [x \in DOMAIN Counter \cup {h} |-> IF x = h THEN got ELSE Counter[x]]
            /\ calls' = [calls EXCEPT ![i].pc = "create", ![i].seq = got]
         \/ /\ call.read = 0 /\ h \in DOMAIN Counter
            /\ Counter' = [Counter EXCEPT ![h] = got]
            /\ calls' = [calls EXCEPT ![i].pc = "create", ![i].seq = got]
         \/ /\ call.read = 0 /\ h \in DOMAIN Counter
            /\ UNCHANGED Counter
            /\ calls' = [calls EXCEPT ![i].pc = "done", ![i].status = 500]
      /\ UNCHANGED <<Class, Student, Professor, allocated, last, prev, audit, Attendance,
                     HOD, clock>>

\* Class.create({ classId: counter.seq, ..., createdBy: hodId }); a
\* duplicate key answers 500.
ClassCreate(i) ==
  LET call == calls[i]
  IN  /\ call.pc = "create"
      /\ \E id \in FreshClassIds \ allocated :
           IF ClassIndexAllows(call.seq, call.hod)
             THEN /\ Class' = [c \in DOMAIN Class \cup {id} |->
                                 IF c = id THEN NewClass(call.seq, call.hod) ELSE Class[c]]
                  /\ allocated' = allocated \cup {id}
                  /\ calls' = [calls EXCEPT ![i].pc = "done", ![i].status = 201, ![i].id = id]
             ELSE /\ UNCHANGED <<Class, allocated>>
                  /\ calls' = [calls EXCEPT ![i].pc = "done", ![i].status = 500]
      /\ UNCHANGED <<Student, Professor, last, prev, audit, Attendance, HOD, Counter, clock>>

\* Tenant hA has created classes 1 and 2, tenant hB none.
InitCreateClass == InitStore /\ audit = FALSE
NextCreateClass ==
  \E i \in CallIds : CreateBegin(i) \/ CounterFind(i) \/ CounterInc(i) \/ ClassCreate(i)
SpecCreateClass == InitCreateClass /\ [][NextCreateClass]_vars

MaxRows == 3
EnrollmentRows == UNION {[1..n -> {"e1", "e2", "e4"}] : n \in 0..MaxRows}
\* The _ids minted for the uploaded students.
FreshStudentIds == {"s4", "s5"}

\* The unique index { enrollmentNumber, createdBy } lets the document in.
StudentIndexAllows(S, enrollmentNumber, hodId) ==
  \A x \in DOMAIN S :
    ~(S[x].enrollmentNumber = enrollmentNumber /\ S[x].createdBy = hodId)

InsertStudent(S, enrollmentNumber, hodId) ==
  LET id == CHOOSE x \in FreshStudentIds \ DOMAIN S : TRUE
  IN  [x \in DOMAIN S \cup {id} |->
         IF x = id THEN NewStudent(enrollmentNumber, hodId) ELSE S[x]]

\* Student.insertMany(docs), ordered: the documents are inserted one after
\* the other, and the first one the index refuses ends the call with an
\* error; the documents inserted before it stay.
insertMany(S, docs, hodId) ==
  LET F[i \in 0..Len(docs)] ==
        IF i = 0 THEN [ok |-> TRUE, Student |-> S]
        ELSE IF ~F[i - 1].ok THEN F[i - 1]
        ELSE IF StudentIndexAllows(F[i - 1].Student, docs[i], hodId)
          THEN [ok |-> TRUE, Student |-> InsertStudent(F[i - 1].Student, docs[i], hodId)]
        ELSE [ok |-> FALSE, Student |-> F[i - 1].Student]
  IN  F[Len(docs)]

\* Student.find({ enrollmentNumber: { $in: ... } }): students of any tenant.
existingEnrollmentSet(rows) ==
  {Student[x].enrollmentNumber : x \in DOMAIN Student} \cap Range(rows)

\* students.filter(s => !existingEnrollmentSet.has(s.enrollmentNumber))
newStudents(rows) ==
  LET IsNew(e) == e \notin existingEnrollmentSet(rows)
  IN  SelectSeq(rows, IsNew)

Uploaded(st, S, up, sk) ==
  [status |-> st, Student |-> S, totalUploaded |-> up, totalSkipped |-> sk]

bulkUploadStudents(hodId, rows) ==
  IF Len(rows) = 0 THEN Uploaded(400, Student, 0, 0)
  ELSE IF Len(newStudents(rows)) = 0 THEN Uploaded(400, Student, 0, 0)
  ELSE LET w == insertMany(Student, newStudents(rows), hodId)
       IN  IF ~w.ok THEN Uploaded(500, w.Student, 0, 0)
           ELSE Uploaded(201, w.Student, Len(newStudents(rows)),
                         Len(rows) - Len(newStudents(rows)))

BulkUploadStudents ==
  \E h \in HodIds, rows \in EnrollmentRows :
    \E o \in {bulkUploadStudents(h, rows)} :
      /\ Student' = o.Student
      /\ allocated' = allocated \cup DOMAIN o.Student
      /\ last' = [op |-> "bulkUploadStudents", hod |-> h, rows |-> rows,
                  status |-> o.status, totalUploaded |-> o.totalUploaded,
                  totalSkipped |-> o.totalSkipped]
      /\ prev' = [Student |-> Student]
      /\ UNCHANGED <<Class, Professor, audit, Attendance, calls, HOD, Counter, clock>>

InitBulkStudents == InitStore /\ audit = TRUE
NextBulkStudents == BulkUploadStudents
SpecBulkStudents == InitBulkStudents /\ [][NextBulkStudents]_vars

\* The positions of last.rows whose enrollment number the store did not
\* hold when the file arrived and that no earlier row of the file carries.
FirstNewRows ==
  {i \in DOMAIN last.rows :
     /\ \A x \in DOMAIN prev.Student : prev.Student[x].enrollmentNumber # last.rows[i]
     /\ \A j \in 1..(i - 1) : last.rows[j] # last.rows[i]}

\* C14: a bulkUploadStudents call whose file brings at least one enrollment
\* number the store does not hold answers 201, inserts one student of the
\* tenant for every row that is the first of the file with a new enrollment
\* number, reports their number as inserted and every other row (already
\* stored, or a repetition inside the file) as skipped, and changes no other
\* student.
C14_RowsClassifiedInFileOrder ==
  (last.op = "bulkUploadStudents" /\ FirstNewRows # {}) =>
    /\ last.status = 201
    /\ last.totalUploaded = Cardinality(FirstNewRows)
    /\ last.totalSkipped = Len(last.rows) - Cardinality(FirstNewRows)
    /\ \A x \in DOMAIN prev.Student : x \in DOMAIN Student /\ Student[x] = prev.Student[x]
    /\ Cardinality(DOMAIN Student \ DOMAIN prev.Student) = Cardinality(FirstNewRows)
    /\ \A i \in FirstNewRows :
         \E x \in DOMAIN Student \ DOMAIN prev.Student :
           Student[x] = NewStudent(last.rows[i], last.hod)

\* ------------------------------------------------------------------------
\* professor.controller: bulkUploadProfessors, as the steps that interleave
\* with another upload; class.controller: bulkUploadClasses
\* ------------------------------------------------------------------------
NamedProfessor(username, hodId) ==
  [createdBy |-> hodId, classes |-> {}, username |-> username]
NamedClass(className, n, hodId) ==
  [classId |-> n, createdBy |-> hodId, students |-> {}, professors |-> {},
   className |-> className]

\* String.prototype.toLowerCase
ToLowerCase(x) == IF x = "U2" THEN "u2" ELSE x

\* Most rows in an uploaded professor or class file.
MaxFileRows == 2
UsernameRows == UNION {[1..n -> {"u2", "U2", "u3"}] : n \in 0..MaxFileRows}
ClassNameRows == UNION {[1..n -> {"a", "c"}] : n \in 0..MaxFileRows}

\* The _id minted for an uploaded professor.
FreshProfessorId(username, hodId) ==
  CASE username = "u2" /\ hodId = "hA" -> "p4"
    [] username = "U2" /\ hodId = "hA" -> "p5"
    [] username = "u2" /\ hodId = "hB" -> "p6"
    [] username = "U2" /\ hodId = "hB" -> "p7"
    [] username = "u3" /\ hodId = "hA" -> "p8"
    [] OTHER -> "p9"
FreshUploadClassIds == {"c3", "c4", "c5", "c6", "c7", "c8"}

\* The unique index { username, createdBy } lets the document in.
ProfessorIndexAllows(username, hodId) ==
  \A x \in DOMAIN Professor :
    ~(Professor[x].username = username /\ Professor[x].createdBy = hodId)

\* existingSet: the usernames of the tenant's professors, lower-cased.
existingSet(hodId) ==
  {ToLowerCase(Professor[x].username) :
     x \in {y \in DOMAIN Professor : Professor[y].createdBy = hodId}}

\* A forEach that keeps no seenInFile set.
ClassifyUnseen(hodId, rows) ==
  LET ex == existingSet(hodId)
      F[i \in 0..Len(rows)] ==
        IF i = 0 THEN [toInsert |-> <<>>, skipped |-> <<>>, seenInFile |-> {}]
        ELSE IF ToLowerCase(rows[i]) \in ex
          THEN [F[i - 1] EXCEPT !.skipped =
                  Append(@, [username |-> rows[i], reason |-> "already exists (DB)"])]
        ELSE [F[i - 1] EXCEPT !.toInsert = Append(@, rows[i])]
  IN  F[Len(rows)]

\* The forEach over normalizedRows: a row is skipped when the store holds
\* its username, or when an earlier queued row of the file carries it;
\* otherwise it is queued.
Classify(hodId, rows) ==
  LET ex == existingSet(hodId)
      F[i \in 0..Len(rows)] ==
        IF i = 0 THEN [toInsert |-> <<>>, skipped |-> <<>>, seenInFile |-> {}]
        ELSE IF ToLowerCase(rows[i]) \in ex
          THEN [F[i - 1] EXCEPT !.skipped =
                  Append(@, [username |-> rows[i], reason |-> "already exists (DB)"])]
        ELSE IF ToLowerCase(rows[i]) \in F[i - 1].seenInFile
          THEN [F[i - 1] EXCEPT !.skipped =
                  Append(@, [username |-> rows[i], reason |-> "duplicate in uploaded file"])]
        ELSE [F[i - 1] EXCEPT !.toInsert = Append(@, rows[i]),
                              !.seenInFile = @ \cup {ToLowerCase(rows[i])}]
  IN  F[Len(rows)]

UploadDone(hodId, queued, inserted, skipped, st) ==
  [pc |-> "done", op |-> "bulkUploadProfessors", hod |-> hodId,
   queued |-> queued, toInsert |-> <<>>, inserted |-> inserted, skipped |-> skipped,
   status |-> st]

\* The upload up to its first Professor.create.  The files are uploaded by
\* tenant hA; tenant hB's professors are there to be left alone.
ProfessorsBegin(i) ==
  /\ calls[i].pc \in {"idle", "done"}
  /\ \E h \in {"hA"}, rows \in UsernameRows :
       LET c == Classify(h, rows)
       IN  calls' = [calls EXCEPT ![i] =
                       IF Len(rows) = 0 THEN UploadDone(h, <<>>, {}, <<>>, 400)
                       ELSE IF Len(c.toInsert) = 0
                         THEN UploadDone(h, <<>>, {}, c.skipped, 200)
                       ELSE [UploadDone(h, c.toInsert, {}, c.skipped, 0)
                               EXCEPT !.pc = "insert", !.toInsert = c.toInsert]]
  /\ UNCHANGED <<Class, Student, Professor, allocated, last, prev, audit, Attendance,
                 HOD, Counter, clock>>

\* One turn of the insert loop: Professor.create, and the catch that turns
\* a duplicate key into a skipped row; the response after the last row.
ProfessorInsert(i) ==
  LET call == calls[i]
      u == Head(call.toInsert)
      id == FreshProfessorId(u, call.hod)
      rest == [call EXCEPT !.toInsert = Tail(@),
                           !.pc = IF Len(call.toInsert) = 1 THEN "done" ELSE "insert",
                           !.status = IF Len(call.toInsert) = 1 THEN 201 ELSE 0]
  IN  /\ call.pc = "insert"
      /\ IF ProfessorIndexAllows(u, call.hod)
           THEN /\ Professor' = [x \in DOMAIN Professor \cup {id} |->
                                   IF x = id THEN NamedProfessor(u, call.hod)
                                   ELSE Professor[x]]
                /\ allocated' = allocated \cup {id}
                /\ calls' = [calls EXCEPT ![i] = [rest EXCEPT !.inserted = @ \cup {u}]]
           ELSE /\ UNCHANGED <<Professor, allocated>>
                /\ calls' = [calls EXCEPT ![i] =
                               [rest EXCEPT !.skipped =
                                  Append(@, [username |-> u,
                                             reason |-> "duplicate key error on insert (race?)"])]]
      /\ UNCHANGED <<Class, Student, last, prev, audit, Attendance, HOD, Counter, clock>>

\* existingSet of bulkUploadClasses: the names of the tenant's classes.
existingClassNames(hodId) ==
  {Class[x].className : x \in {y \in DOMAIN Class : Class[y].createdBy = hodId}}

classesToInsert(hodId, rows) ==
  LET IsNew(n) == n \notin existingClassNames(hodId)
  IN  SelectSeq(rows, IsNew)

\* The insert loop of bulkUploadClasses: for every queued row the counter is
\* incremented and the class created; a Class.create that fails ends the
\* loop, and what was written before stays.
CreateClasses(hodId, names) ==
  LET F[i \in 0..Len(names)] ==
        IF i = 0 THEN [ok |-> TRUE, Class |-> Class, seq |-> CounterSeq(hodId)]
        ELSE IF ~F[i - 1].ok THEN F[i - 1]
        ELSE LET C == F[i - 1].Class
                 n == F[i - 1].seq + 1
                 id == CHOOSE x \in FreshUploadClassIds \ DOMAIN C : TRUE
             IN  IF \A x \in DOMAIN C : ~(C[x].classId = n /\ C[x].createdBy = hodId)
                   THEN [ok |-> TRUE, seq |-> n,
                         Class |-> [x \in DOMAIN C \cup {id} |->
                                      IF x = id THEN NamedClass(names[i], n, hodId) ELSE C[x]]]
                   ELSE [ok |-> FALSE, seq |-> n, Class |-> C]
  IN  F[Len(names)]

bulkUploadClasses(hodId, rows) ==
  LET queued == classesToInsert(hodId, rows)
      w == CreateClasses(hodId, queued)
      counter == IF w.seq = 0 THEN Counter
                 ELSE [x \in DOMAIN Counter \cup {hodId} |->
                         IF x = hodId THEN w.seq ELSE Counter[x]]
  IN  IF Len(rows) = 0 \/ Len(queued) = 0
        THEN [status |-> 400, Class |-> Class, Counter |-> Counter,
              totalUploaded |-> 0, totalSkipped |-> 0]
      ELSE IF ~w.ok
        THEN [status |-> 500, Class |-> w.Class, Counter |-> counter,
              totalUploaded |-> 0, totalSkipped |-> 0]
      ELSE [status |-> 201, Class |-> w.Class, Counter |-> counter,
            totalUploaded |-> Len(queued), totalSkipped |-> Len(rows) - Len(queued)]

BulkUploadClasses ==
  \E h \in HodIds, rows \in ClassNameRows :
    \E o \in {bulkUploadClasses(h, rows)} :
      /\ Class' = o.Class
      /\ Counter' = o.Counter
      /\ allocated' = allocated \cup DOMAIN o.Class
      /\ last' = [op |-> "bulkUploadClasses", hod |-> h, rows |-> rows,
                  status |-> o.status, totalUploaded |-> o.totalUploaded,
                  totalSkipped |-> o.totalSkipped]
      /\ prev' = [Class |-> Class]
      /\ UNCHANGED <<Student, Professor, audit, Attendance, calls, HOD, clock>>

\* Tenant hA holds classes "a" and "b" and professors u1 and u0, tenant hB
\* professor u1; students as in the initial store.
InitBulkUpload ==
  /\ Class = [c \in ClassIds |->
                IF c = "c1" THEN NamedClass("a", 1, "hA") ELSE NamedClass("b", 2, "hA")]
  /\ Student = [x \in {"s1", "s3"} |->
                IF x = "s1" THEN NewStudent("e1", "hA") ELSE NewStudent("e3", "hB")]
  /\ Professor = [x \in ProfessorIds |->
                IF x = "p1" THEN NamedProfessor("u1", "hA")
                ELSE IF x = "p2" THEN NamedProfessor("u0", "hA")
                ELSE NamedProfessor("u1", "hB")]
  /\ allocated = ClassIds \cup {"s1", "s3"} \cup ProfessorIds
  /\ last = NoRequest
  /\ prev = Roster
  /\ Attendance = EmptyBag
  /\ calls = [i \in CallIds |-> Idle]
  /\ InitTenants
  /\ audit = TRUE
\* The three uploads write three different collections and read nothing of
\* each other's, so a behaviour runs uploads of one kind only.
OnlyUploads(op) ==
  /\ last.op \in {"none", op}
  /\ op # "bulkUploadProfessors" => \A i \in CallIds : calls[i].pc = "idle"
NextBulkUpload ==
  \/ OnlyUploads("bulkUploadStudents") /\ BulkUploadStudents
  \/ OnlyUploads("bulkUploadClasses") /\ BulkUploadClasses
  \/ OnlyUploads("bulkUploadProfessors") /\ \E i \in CallIds : ProfessorsBegin(i)
  \/ \E i \in CallIds : ProfessorInsert(i)
SpecBulkUpload == InitBulkUpload /\ [][NextBulkUpload]_vars

\* The rows of a finished professor upload that the catch of the insert loop
\* reported after a duplicate key.
RefusedRows(i) ==
  {k \in DOMAIN calls[i].skipped :
     calls[i].skipped[k].reason = "duplicate key error on insert (race?)"}
\* The positions of last.rows that bulkUploadClasses queued.
QueuedClassRows ==
  {k \in DOMAIN last.rows :
     \A x \in DOMAIN prev.Class :
       ~(prev.Class[x].createdBy = last.hod /\ prev.Class[x].className = last.rows[k])}

\* C15: in each of the three bulk uploads an insert of a queued row that a
\* unique index refuses does not end the upload: the call answers 201, the
\* queued rows the index accepts are all inserted, and every refused row is
\* counted among the skipped ones.
C15_RefusedInsertDoesNotAbort ==
  /\ \A i \in CallIds :
       (calls[i].pc = "done" /\ calls[i].queued # <<>>) =>
         /\ calls[i].status = 201
         /\ Cardinality(calls[i].inserted) + Cardinality(RefusedRows(i)) = Len(calls[i].queued)
         /\ \A k \in DOMAIN calls[i].queued :
              \/ /\ calls[i].queued[k] \in calls[i].inserted
                 /\ ~ProfessorIndexAllows(calls[i].queued[k], calls[i].hod)
              \/ \E j \in RefusedRows(i) : calls[i].skipped[j].username = calls[i].queued[k]
  /\ (last.op = "bulkUploadStudents" /\ FirstNewRows # {}) =>
       /\ last.status = 201
       /\ last.totalSkipped = Len(last.rows) - Cardinality(FirstNewRows)
       /\ \A k \in FirstNewRows : ~StudentIndexAllows(Student, last.rows[k], last.hod)
  /\ (last.op = "bulkUploadClasses" /\ QueuedClassRows # {}) =>
       /\ last.status = 201
       /\ last.totalUploaded = Cardinality(QueuedClassRows)
       /\ Cardinality(DOMAIN Class \ DOMAIN prev.Class) = Cardinality(QueuedClassRows)

\* The professor half of C15 alone.
C15_ProfessorsOnly ==
  \A i \in CallIds :
    (calls[i].pc = "done" /\ calls[i].queued # <<>>) =>
      /\ calls[i].status = 201
      /\ Cardinality(calls[i].inserted) + Cardinality(RefusedRows(i)) = Len(calls[i].queued)
C15_ProfessorRefused ==
  \E i \in CallIds : calls[i].pc = "done" /\ RefusedRows(i) # {} /\ calls[i].inserted # {}

\* ------------------------------------------------------------------------
\* markBulkAttendance against classes whose roster changes and that get
\* deleted
\* ------------------------------------------------------------------------
\* A professor whose token passes authorizeProfessor marks student s1.
MarkOneRecord ==
  \E x \in ProfessorIds, c \in ClassIds, present \in BOOLEAN :
    /\ authorizeProfessor(x)
    /\ \E o \in {markBulkAttendance(x, c, "1", "1000",
                                    <<[studentId |-> "s1", isPresent |-> present]>>)} :
         /\ Attendance' = o.Attendance
         /\ last' = LogMark(x, c, "1", "1000",
                            <<[studentId |-> "s1", isPresent |-> present]>>, o)
         /\ prev' = [Attendance |-> Attendance]
         /\ UNCHANGED <<Class, Student, Professor, allocated, audit, calls,
                        HOD, Counter, clock>>

InitAccess == InitAttendanceStore /\ audit = TRUE
NextAccess ==
  \/ MarkOneRecord
  \/ DeleteClass
  \/ RemoveProfessorsFromClass
SpecAccess == InitAccess /\ [][NextAccess]_vars

TokenStudent(enrollmentNumber, hodId, tokens) ==
  [enrollmentNumber |-> enrollmentNumber, createdBy |-> hodId, classIds |-> {},
   fcmTokens |-> tokens]

\* Tokens in one multicast batch: 500 in the code, scaled to the three
\* tokens of the store.
BatchSize == 2
TokenOrder == <<"t1", "t2", "t3">>

\* students.flatMap(s => s.fcmTokens): the tokens of the students found.
TokensOf(studentIds) ==
  LET have == UNION {Student[x].fcmTokens : x \in DOMAIN Student \cap studentIds}
      InHave(t) == t \in have
  IN  SelectSeq(TokenOrder, InHave)

\* chunkArray(arr, size)
chunkArray(arr, size) ==
  [k \in 1..((Len(arr) + size - 1) \div size) |->
     SubSeq(arr, (k - 1) * size + 1,
            IF k * size < Len(arr) THEN k * size ELSE Len(arr))]

\* The call after a batch: the next batch, or the final response.
NextBatch(call) ==
  IF Len(call.batches) <= 1 THEN [call EXCEPT !.pc = "respond", !.batches = <<>>]
  ELSE [call EXCEPT !.pc = "send", !.batches = Tail(@)]

\* An error that leaves the handler through next(err).
Uncaught(call, fault) ==
  [call EXCEPT !.pc = "done", !.status = 500, !.faults = @ \cup {fault}]
\* A batch error that ends the loop: the batches left are not sent.
StopAtBatchErr(call, fault) ==
  [call EXCEPT !.pc = "respond", !.batches = <<>>, !.faults = @ \cup {fault}]
\* catch (batchErr): logged, the loop continues with the next batch.
CatchBatchErr(call, fault) == [NextBatch(call) EXCEPT !.faults = @ \cup {fault}]
\* catch (notifyErr): logged, the handler goes on to the response.
CatchNotifyErr(call, fault) ==
  [call EXCEPT !.pc = "respond", !.batches = <<>>, !.faults = @ \cup {fault}]

NotifyRecords ==
  {<<[studentId |-> "s1", isPresent |-> TRUE], [studentId |-> "s3", isPresent |-> TRUE]>>,
   <<[studentId |-> BadId, isPresent |-> TRUE], [studentId |-> "s3", isPresent |-> TRUE]>>}

\* The handler up to and including Attendance.bulkWrite; `messaging` tells
\* whether the process holds a messaging client.
NotifyBegin(i) ==
  /\ calls[i].pc \in {"idle", "done"}
  /\ \E x \in {"p1", "p3"}, c \in {"c1"}, records \in NotifyRecords, messaging \in BOOLEAN :
       \E o \in {markBulkAttendance(x, c, "1", "1000", records)} :
         /\ Attendance' = o.Attendance
         /\ calls' = [calls EXCEPT ![i] =
              [pc |-> IF o.status = 200 THEN "class" ELSE "done",
               status |-> IF o.status = 200 THEN 0 ELSE o.status,
               classId |-> c, messaging |-> messaging,
               keys |-> {OpKey(r, c, 1000, 1) : r \in Range(dedupedRecords(records))},
               studentIds |-> {r.studentId : r \in Range(dedupedRecords(records))},
               savedCount |-> o.savedCount,
               skippedCount |-> Len(o.skippedStudentIds),
               batches |-> <<>>, invalidTokens |-> {}, faults |-> {}]]
  /\ UNCHANGED <<Class, Student, Professor, allocated, last, prev, audit,
                 HOD, Counter, clock>>

\* Class.findById(classId).lean()
ClassLookup(i) ==
  /\ calls[i].pc = "class"
  /\ \/ calls' = [calls EXCEPT ![i].pc = "students"]
     \/ calls' = [calls EXCEPT ![i] = CatchNotifyErr(@, "class")]
  /\ UNCHANGED <<Class, Student, Professor, allocated, last, prev, audit, Attendance,
                 HOD, Counter, clock>>

\* Student.find({ _id: { $in: studentIds } }), the tokens and the batches
StudentLookup(i) ==
  LET call == calls[i]
      tokens == TokensOf(call.studentIds)
  IN  /\ call.pc = "students"
      /\ \/ calls' = [calls EXCEPT ![i] =
                        IF Len(tokens) > 0 /\ call.messaging
                          THEN [call EXCEPT !.pc = "send",
                                            !.batches = chunkArray(tokens, BatchSize)]
                          ELSE [call EXCEPT !.pc = "respond"]]
         \/ calls' = [calls EXCEPT ![i] = CatchNotifyErr(call, "students")]
      /\ UNCHANGED <<Class, Student, Professor, allocated, last, prev, audit, Attendance,
                     HOD, Counter, clock>>

\* messaging.sendEachForMulticast for the first batch left: it throws, or it
\* answers with the tokens the service rejected.
Send(i) ==
  LET call == calls[i]
  IN  /\ call.pc = "send"
      /\ \/ calls' = [calls EXCEPT ![i] = CatchBatchErr(call, "send")]
         \/ \E invalid \in SUBSET Range(Head(call.batches)) :
              calls' = [calls EXCEPT ![i] =
                          IF invalid = {} THEN NextBatch(call)
                          ELSE [call EXCEPT !.pc = "prune", !.invalidTokens = invalid]]
      /\ UNCHANGED <<Class, Student, Professor, allocated, last, prev, audit, Attendance,
                     HOD, Counter, clock>>

\* Student.updateMany({ fcmTokens: { $in } }, { $pull: { fcmTokens: { $in } } })
Prune(i) ==
  LET call == calls[i]
  IN  /\ call.pc = "prune"
      /\ \/ /\ Student' = [x \in DOMAIN Student |->
                             [Student[x] EXCEPT !.fcmTokens = @ \ call.invalidTokens]]
            /\ calls' = [calls EXCEPT ![i] = [NextBatch(call) EXCEPT !.invalidTokens = {}]]
         \/ /\ UNCHANGED Student
            /\ calls' = [calls EXCEPT ![i] =
                           [CatchBatchErr(call, "prune") EXCEPT !.invalidTokens = {}]]
      /\ UNCHANGED <<Class, Professor, allocated, last, prev, audit, Attendance,
                     HOD, Counter, clock>>

\* successResponse(res, { savedCount, skippedCount, ... }, 200)
RespondMarked(i) ==
  /\ calls[i].pc = "respond"
  /\ calls' = [calls EXCEPT ![i].pc = "done", ![i].status = 200]
  /\ UNCHANGED <<Class, Student, Professor, allocated, last, prev, audit, Attendance,
                 HOD, Counter, clock>>

\* Class c1 of tenant hA is assigned to nobody; student s1 holds two device
\* tokens, student s3 one.
InitNotify ==
  /\ Class = [c \in ClassIds |-> IF c = "c1" THEN NewClass(1, "hA") ELSE NewClass(2, "hA")]
  /\ Student = [x \in {"s1", "s3"} |->
                IF x = "s1" THEN TokenStudent("e1", "hA", {"t1", "t2"})
                ELSE TokenStudent("e3", "hB", {"t3"})]
  /\ Professor = [x \in ProfessorIds |->
                IF x = "p3" THEN NewProfessor("hB") ELSE NewProfessor("hA")]
  /\ allocated = ClassIds \cup {"s1", "s3"} \cup ProfessorIds
  /\ last = NoRequest
  /\ prev = Roster
  /\ Attendance = EmptyBag
  /\ calls = [i \in CallIds |-> Idle]
  /\ InitTenants
  /\ audit = FALSE

NotifyStage(i) == ClassLookup(i) \/ StudentLookup(i) \/ Send(i) \/ Prune(i) \/ RespondMarked(i)
NextNotify == \E i \in CallIds : NotifyBegin(i) \/ NotifyStage(i)
\* Every await of the stage settles: a call that can take its next step
\* takes it.
SpecNotify ==
  InitNotify /\ [][NextNotify]_vars /\ \A i \in CallIds : WF_vars(NotifyStage(i))

InStage(i) == calls[i].pc \in {"class", "students", "send", "prune", "respond"}

\* C17: a markBulkAttendance call whose bulkWrite succeeded goes on to
\* answer 200, whatever fails on the way (the class lookup, the student
\* lookup, a missing messaging client, a batch send that throws, a token
\* clean-up that throws); it never answers anything else, and a document
\* exists for every key it wrote, during the stage and at its response.
C17_NotificationNeverFailsTheCall ==
  /\ \A i \in CallIds : InStage(i) ~> (calls[i].pc = "done" /\ calls[i].status = 200)
  /\ [](\A i \in CallIds :
          (InStage(i) \/ (calls[i].pc = "done" /\ calls[i].status # 0 /\ calls[i].keys # {}
                            /\ calls[i].faults # {})) =>
            /\ calls[i].status \in {0, 200}
            /\ \A key \in calls[i].keys : Matching(Attendance, key) # {})

\* A call answered 200 after its batch send threw and its token clean-up
\* threw.
C17_Witness ==
  \E i \in CallIds :
    /\ calls[i].pc = "done"
    /\ calls[i].status = 200
    /\ calls[i].faults = {"send", "prune"}
    /\ calls[i].keys # {}

\* ------------------------------------------------------------------------
\* attendance.controller: getMonthlySummary
\* A timestamp is <<day, ms>>: the days since 1970-01-01 UTC and the
\* milliseconds into that day, ordered as the number day * DayMs + ms is.
\* ------------------------------------------------------------------------
DayMs == 86400000
\* The process runs five and a half hours ahead of UTC.
TimezoneOffsetMs == 19800000

\* Days from 1970-01-01 to the civil date (y, m, d), m in 1..12.
DaysFromCivil(y, m, d) ==
  LET yy == IF m <= 2 THEN y - 1 ELSE y
      era == yy \div 400
      yoe == yy - era * 400
      doy == (153 * (IF m > 2 THEN m - 3 ELSE m + 9) + 2) \div 5 + d - 1
      doe == yoe * 365 + yoe \div 4 - yoe \div 100 + doy
  IN  era * 146097 + doe - 719468

\* The Date constructor reads a year of 0..99 as 1900 + year.
FullYear(year) == IF year >= 0 /\ year <= 99 THEN 1900 + year ELSE year

\* The local day of new Date(year, monthIndex, day, ...): monthIndex runs
\* from 0 and may be 12, day may be 0 (the day before the first).
DateDay(year, monthIndex, day) ==
  DaysFromCivil(FullYear(year) + monthIndex \div 12, (monthIndex % 12) + 1, 1) + day - 1

TimeMs(h, mi, sec, ms) == h * 3600000 + mi * 60000 + sec * 1000 + ms

\* getTime() of the local day and time of day.
GetTime(localDay, msOfDay) ==
  IF msOfDay - TimezoneOffsetMs < 0
    THEN <<localDay - 1, msOfDay - TimezoneOffsetMs + DayMs>>
    ELSE <<localDay, msOfDay - TimezoneOffsetMs>>

Gte(a, b) == a[1] > b[1] \/ (a[1] = b[1] /\ a[2] >= b[2])

\* const start = new Date(year, month - 1, 1).getTime()
startOf(year, month) == GetTime(DateDay(year, month - 1, 1), TimeMs(0, 0, 0, 0))
\* An end that is the first instant of the month after.
FirstOfNextMonth(year, month) == GetTime(DateDay(year, month, 1), TimeMs(0, 0, 0, 0))
\* const end = new Date(year, month, 0, 23, 59, 59, 999).getTime()
endOf(year, month) == GetTime(DateDay(year, month, 0), TimeMs(23, 59, 59, 999))

\* $match { classId, dateMs: { $gte: start, $lte: end } }
MatchStage(classId, year, month) ==
  {r \in BagToSet(Attendance) :
     /\ r.classId = classId
     /\ Gte(r.dateMs, startOf(year, month))
     /\ Gte(endOf(year, month), r.dateMs)}

\* $group by studentId, $lookup in students and $unwind: one row for every
\* student of the matched records that has a document.
getMonthlySummary(classId, month, year) ==
  IF classId = NoValue \/ month = 0 \/ year = 0 THEN [status |-> 400, summary |-> <<>>]
  ELSE IF month < 1 \/ month > 12 THEN [status |-> 400, summary |-> <<>>]
  ELSE IF ~ObjectIdIsValid(classId) THEN [status |-> 400, summary |-> <<>>]
  ELSE LET match == MatchStage(classId, year, month)
           Of(x) == {r \in match : r.studentId = x}
       IN  [status |-> 200,
            summary |-> [x \in {r.studentId : r \in match} \cap DOMAIN Student |->
                           [totalClasses |-> Cardinality(Of(x)),
                            presents |-> Cardinality({r \in Of(x) : r.isPresent})]]]

GetMonthlySummary ==
  \E c \in {"c1", "c2", BadId}, month \in 0..13, year \in {2023, 2024} :
    \E o \in {getMonthlySummary(c, month, year)} :
      /\ last' = [op |-> "getMonthlySummary", classId |-> c, month |-> month,
                  year |-> year, status |-> o.status, summary |-> o.summary]
      /\ UNCHANGED <<Class, Student, Professor, allocated, prev, audit, Attendance,
                     calls, HOD, Counter, clock>>

\* The instant before t.
Before(t) == IF t[2] = 0 THEN <<t[1] - 1, DayMs - 1>> ELSE <<t[1], t[2] - 1>>
\* The first local instant of a month and the first instant of its first
\* day in UTC, each with the instant before it.
AroundMonthStart(y, m) ==
  {GetTime(DaysFromCivil(y, m, 1), 0), Before(GetTime(DaysFromCivil(y, m, 1), 0)),
   <<DaysFromCivil(y, m, 1), 0>>, Before(<<DaysFromCivil(y, m, 1), 0>>)}
MarkInstants ==
  AroundMonthStart(2024, 1) \cup AroundMonthStart(2024, 2) \cup AroundMonthStart(2024, 3)
    \cup AroundMonthStart(2023, 3) \cup AroundMonthStart(2024, 5)
    \cup {GetTime(DaysFromCivil(2024, 2, 15), TimeMs(12, 0, 0, 0))}

\* Most attendance documents in the collection a summary is asked of.
MaxMarks == 2
MarkDocuments ==
  {[studentId |-> "s1", classId |-> "c1", dateMs |-> t, slotNumber |-> 1,
    isPresent |-> TRUE, markedBy |-> "p1"] : t \in MarkInstants}
    \cup {[studentId |-> "s1", classId |-> "c2", dateMs |-> GetTime(DaysFromCivil(2024, 2, 1), 0),
           slotNumber |-> 1, isPresent |-> FALSE, markedBy |-> "p1"],
          [studentId |-> "s2", classId |-> "c1", dateMs |-> GetTime(DaysFromCivil(2024, 2, 1), 0),
           slotNumber |-> 1, isPresent |-> TRUE, markedBy |-> "p1"]}
\* The sets of at most MaxMarks documents.
MarkSets ==
  LET F[k \in 0..MaxMarks] ==
        IF k = 0 THEN {{}}
        ELSE F[k - 1] \cup {S \cup {d} : S \in F[k - 1], d \in MarkDocuments}
  IN  F[MaxMarks]

\* The store holds students s1 and s3, no student s2, and up to MaxMarks
\* attendance documents.
InitMonthlySummary ==
  /\ Class = [c \in ClassIds |-> IF c = "c1" THEN NewClass(1, "hA") ELSE NewClass(2, "hA")]
  /\ Student = [x \in {"s1", "s3"} |->
                IF x = "s1" THEN NewStudent("e1", "hA") ELSE NewStudent("e3", "hB")]
  /\ Professor = [x \in ProfessorIds |->
                IF x = "p3" THEN NewProfessor("hB") ELSE NewProfessor("hA")]
  /\ allocated = ClassIds \cup {"s1", "s3"} \cup ProfessorIds
  /\ last = NoRequest
  /\ prev = Roster
  /\ calls = [i \in CallIds |-> Idle]
  /\ InitTenants
  /\ audit = FALSE
  /\ \E docs \in MarkSets : Attendance = SetToBag(docs)
NextMonthlySummary == GetMonthlySummary
SpecMonthlySummary == InitMonthlySummary /\ [][NextMonthlySummary]_vars

\* The civil year and month of the local day `day`.
CivilMonth(day) ==
  LET z == day + 719468
      era == z \div 146097
      doe == z - era * 146097
      yoe == (doe - doe \div 1460 + doe \div 36524 - doe \div 146096) \div 365
      doy == doe - (365 * yoe + yoe \div 4 - yoe \div 100)
      mp == (5 * doy + 2) \div 153
      m == IF mp < 10 THEN mp + 3 ELSE mp - 9
  IN  <<IF m <= 2 THEN yoe + era * 400 + 1 ELSE yoe + era * 400, m>>
\* The local day an instant falls on.
LocalDay(t) == IF t[2] + TimezoneOffsetMs >= DayMs THEN t[1] + 1 ELSE t[1]

UpdateEmails == {NoValue, "b@x.io", "c@x.io"}
UpdatePasswords == {NoValue, "pw1"}
UpdateAltPasswords == {NoValue, "alt1"}

\* The paths the schema declares under pendingUpdates.
PendingUpdatesPaths == {"email", "password"}
\* Strict mode: a save keeps the declared paths of a nested object only.
StrictCast(obj) == [k \in PendingUpdatesPaths |-> obj[k]]
\* hod.pendingUpdates?.<k> of a document read back from the store.
Pending(hod, k) ==
  IF k \in DOMAIN hod.pendingUpdates THEN hod.pendingUpdates[k] ELSE NoValue

\* The object updateHOD builds in memory before the save.
NoStaged == [email |-> NoValue, password |-> NoValue, altPassword |-> NoValue]
Staged(hod, email, password, altPassword) ==
  [email |-> IF email # NoValue /\ email # hod.email THEN email ELSE NoValue,
   password |-> password, altPassword |-> altPassword]

EmailExists(email) == \E h \in DOMAIN HOD : HOD[h].email = email

\* The handler answers with the status, the store and the object it staged;
\* the mail is sent before the save, so a mail that fails stores nothing.
updateHOD(hodId, email, password, altPassword, code, mailFails) ==
  IF hodId \notin DOMAIN HOD THEN [status |-> 404, HOD |-> HOD, staged |-> prev[hodId]]
  ELSE
    LET hod == HOD[hodId]
        st == Staged(hod, email, password, altPassword)
    IN IF st = NoStaged THEN [status |-> 200, HOD |-> HOD, staged |-> prev[hodId]]
       ELSE IF st.email # NoValue /\ EmailExists(email)
         THEN [status |-> 400, HOD |-> HOD, staged |-> prev[hodId]]
       ELSE IF mailFails THEN [status |-> 500, HOD |-> HOD, staged |-> prev[hodId]]
       ELSE [status |-> 200,
             HOD |-> [HOD EXCEPT ![hodId] =
                        [hod EXCEPT !.otp = generateOTP(code),
                                    !.pendingUpdates = StrictCast(st),
                                    !.verified = IF st.email # NoValue THEN FALSE ELSE @]],
             staged |-> st]

\* verifyOTP(otp, hod.otp.code, hod.otp.expiresAt)
updateOtpStatus(hodId, otp) ==
  verifyOTP(otp, HOD[hodId].otp.code, HOD[hodId].otp.expiresAt)

verifyUpdateOTP(hodId, otp) ==
  IF hodId \notin DOMAIN HOD THEN [status |-> 400, HOD |-> HOD]
  ELSE
    LET hod == HOD[hodId]
        status == updateOtpStatus(hodId, otp)
    IN IF status = "invalid" THEN [status |-> 400, HOD |-> HOD]
       ELSE IF status = "expired"
         THEN [status |-> 400,
               HOD |-> [HOD EXCEPT ![hodId] =
                          [hod EXCEPT !.otp = NoOtp, !.pendingUpdates = NoPending]]]
       ELSE [status |-> 200,
             HOD |-> [HOD EXCEPT ![hodId] =
                        [hod EXCEPT
                           !.email = IF Pending(hod, "email") # NoValue
                                       THEN Pending(hod, "email") ELSE @,
                           !.verified = IF Pending(hod, "email") # NoValue THEN TRUE ELSE @,
                           !.password = IF Pending(hod, "password") # NoValue
                                          THEN Hash(Pending(hod, "password")) ELSE @,
                           !.altPassword = IF Pending(hod, "altPassword") # NoValue
                                             THEN Hash(Pending(hod, "altPassword")) ELSE @,
                           !.otp = NoOtp,
                           !.pendingUpdates = NoPending]]]

\* The tenant that changes its credentials; the other one holds an email
\* address that is already in use.
UpdatingHods == {"hA"}

UpdateHOD ==
  \E h \in UpdatingHods, email \in UpdateEmails, password \in UpdatePasswords,
     altPassword \in UpdateAltPasswords, code \in OtpCodes, mailFails \in BOOLEAN :
    \E o \in {updateHOD(h, email, password, altPassword, code, mailFails)} :
      /\ HOD' = o.HOD
      /\ prev' = [prev EXCEPT ![h] = o.staged]
      /\ last' = LogTenant("updateHOD", h, code, o.status)
      /\ UNCHANGED <<Class, Student, Professor, allocated, audit, Attendance, calls,
                     Counter, clock>>

VerifyUpdateOTP ==
  \E h \in UpdatingHods, otp \in OtpCodes \cup {NoValue} :
    \E o \in {verifyUpdateOTP(h, otp)} :
      /\ HOD' = o.HOD
      /\ last' = LogTenant("verifyUpdateOTP", h, otp, o.status)
      /\ UNCHANGED <<Class, Student, Professor, allocated, prev, audit, Attendance, calls,
                     Counter, clock>>

\* The two tenants with nothing staged; prev holds, per tenant, the object
\* the last accepted updateHOD staged.
InitUpdateHOD ==
  /\ Class = [c \in ClassIds |-> IF c = "c1" THEN NewClass(1, "hA") ELSE NewClass(2, "hA")]
  /\ Student = [x \in {"s1", "s3"} |->
                IF x = "s1" THEN NewStudent("e1", "hA") ELSE NewStudent("e3", "hB")]
  /\ Professor = [x \in ProfessorIds |->
                IF x = "p3" THEN NewProfessor("hB") ELSE NewProfessor("hA")]
  /\ allocated = ClassIds \cup {"s1", "s3"} \cup ProfessorIds
  /\ last = NoRequest
  /\ prev = [h \in HodIds |-> NoStaged]
  /\ Attendance = EmptyBag
  /\ calls = [i \in CallIds |-> Idle]
  /\ InitTenants
  /\ audit = FALSE
NextUpdateHOD == UpdateHOD \/ VerifyUpdateOTP \/ Tick
SpecUpdateHOD == InitUpdateHOD /\ [][NextUpdateHOD]_vars

Credentials(hod) == <<hod.email, hod.password, hod.altPassword>>

\* What a successful verification has to leave in the account, given the
\* object `st` that was staged.
Applied(before, after, st) ==
  /\ after.email = IF st.email # NoValue THEN st.email ELSE before.email
  /\ after.password = IF st.password # NoValue THEN Hash(st.password) ELSE before.password
  /\ after.altPassword =
       IF st.altPassword # NoValue THEN Hash(st.altPassword) ELSE before.altPassword
  /\ after.otp = NoOtp
  /\ after.pendingUpdates = NoPending

\* C20: a new email, password or alternate password asked for through
\* updateHOD leaves the tenant's credentials as they are; a verifyUpdateOTP
\* that succeeds applies every staged field (email, password and altPassword)
\* and clears the staging area and the code; a verifyUpdateOTP that is
\* refused (invalid or expired code) applies none of the staged values.
C20_StagedUntilVerified ==
  [][\A h \in HodIds :
       /\ (last'.op = "updateHOD" /\ last'.hod = h) =>
            Credentials(HOD'[h]) = Credentials(HOD[h])
       /\ (last'.op = "verifyUpdateOTP" /\ last'.hod = h /\ last'.status = 200) =>
            Applied(HOD[h], HOD'[h], prev[h])
       /\ (last'.op = "verifyUpdateOTP" /\ last'.hod = h /\ last'.status # 200) =>
            Credentials(HOD'[h]) = Credentials(HOD[h])]_vars

\* The same property for the two fields the schema stores: a staged email
\* and password are applied on success and on no other path.
C20_EmailAndPasswordStaged ==
  [][\A h \in HodIds :
       /\ (last'.op = "updateHOD" /\ last'.hod = h) =>
            Credentials(HOD'[h]) = Credentials(HOD[h])
       /\ (last'.op = "verifyUpdateOTP" /\ last'.hod = h /\ last'.status = 200) =>
            Applied(HOD[h], HOD'[h], [prev[h] EXCEPT !.altPassword = NoValue])
       /\ (last'.op = "verifyUpdateOTP" /\ last'.hod = h /\ last'.status # 200) =>
            Credentials(HOD'[h]) = Credentials(HOD[h])]_vars

\* A verification has succeeded for a tenant that had staged an alternate
\* password, and the alternate password of the account is the old one.
C20_AltPasswordLost ==
  /\ last.op = "verifyUpdateOTP" /\ last.status = 200
  /\ prev[last.hod].altPassword = "alt1"
  /\ HOD[last.hod].altPassword = Hash("alt0")

\* ------------------------------------------------------------------------
\* Properties of deleteClass
\* ------------------------------------------------------------------------
\* C21: a deleteClass that succeeds removes only the deleted class from the
\* back-reference sets: every other class is in a student's classIds and in
\* a professor's classes after the call exactly when it was before, and no
\* other class's students or professors change.
C21_DeleteClassRemovesOnlyThatClass ==
  (last.op = "deleteClass" /\ last.status = 200) =>
    /\ \A s \in DOMAIN Student, c \in ClassIds \ {last.id} :
         c \in Ids(Student[s].classIds) <=> c \in Ids(prev.Student[s].classIds)
    /\ \A p \in DOMAIN Professor, c \in ClassIds \ {last.id} :
         c \in Professor[p].classes <=> c \in prev.Professor[p].classes
    /\ \A c \in DOMAIN Class :
         /\ Class[c].students = prev.Class[c].students
         /\ Class[c].professors = prev.Class[c].professors

\* The professors' half and the classes' half of the same property.
C21_ProfessorsAndClassesKept ==
  (last.op = "deleteClass" /\ last.status = 200) =>
    /\ \A p \in DOMAIN Professor, c \in ClassIds \ {last.id} :
         c \in Professor[p].classes <=> c \in prev.Professor[p].classes
    /\ \A c \in DOMAIN Class :
         /\ Class[c].students = prev.Class[c].students
         /\ Class[c].professors = prev.Class[c].professors

\* A class was deleted while one of its students was in another class too,
\* and that student lists no class any more.
C21_OtherClassLost ==
  /\ last.op = "deleteClass" /\ last.status = 200
  /\ \E s \in DOMAIN Student, c \in DOMAIN Class :
       /\ c \in Ids(prev.Student[s].classIds)
       /\ last.id \in Ids(prev.Student[s].classIds)
       /\ s \in Class[c].students
       /\ c \notin Ids(Student[s].classIds)

\* ------------------------------------------------------------------------
\* Properties of deleteStudent / deleteStudentsBulk
\* ------------------------------------------------------------------------
\* Students are assigned, classes and students are deleted.
InitStudentDelete == InitStore /\ audit = TRUE
NextStudentDelete ==
  \/ AssignStudentsToClass
  \/ DeleteClass
  \/ DeleteStudent
  \/ DeleteStudentsBulk
SpecStudentDelete == InitStudentDelete /\ [][NextStudentDelete]_vars

\* The students the latest request deleted.
LastDeleted == DOMAIN prev.Student \ DOMAIN Student

\* C23: after a deleteStudent or deleteStudentsBulk that succeeds, no class's
\* students holds a student the call deleted.
C23_DeletedStudentLeftNoClass ==
  (last.op \in {"deleteStudent", "deleteStudentsBulk"} /\ last.status = 200) =>
    \A s \in LastDeleted, c \in DOMAIN Class : s \notin Class[c].students

\* The pull the handlers do make: the classes the deleted student listed
\* no longer list the student.
C23_PulledFromOwnClasses ==
  (last.op \in {"deleteStudent", "deleteStudentsBulk"} /\ last.status = 200) =>
    \A s \in LastDeleted, c \in DOMAIN Class :
      c \in Ids(prev.Student[s].classIds) => s \notin Class[c].students

\* A deleted student whose classIds held null is still in a class.
C23_DeletedStudentStillListed ==
  /\ last.op \in {"deleteStudent", "deleteStudentsBulk"} /\ last.status = 200
  /\ \E s \in LastDeleted, c \in DOMAIN Class :
       s \in Class[c].students /\ ~IsArray(prev.Student[s].classIds)

\* ------------------------------------------------------------------------
\* deleteClass with a store step that fails
\* ------------------------------------------------------------------------
\* The three writes of deleteClass in the order the handler awaits them.
DeleteClassSteps == <<"Student.updateMany", "Professor.updateMany", "deleteOne">>

\* deleteClass whose write number failedStep throws: the writes before it
\* are kept (no session, no transaction), the catch answers 500.
deleteClassFailing(hodId, id, failedStep) ==
  IF ~ObjectIdIsValid(id) THEN {Fail(500)}
  ELSE IF ~ClassOwned(id, hodId) THEN {Fail(404)}
  ELSE {Out(500, Class,
            IF failedStep > 1 THEN DetachStudentsOfClass(Student, id) ELSE Student,
            IF failedStep > 2 THEN ProfessorsPullClasses(Professor, {id}) ELSE Professor)}

DeleteClassFails ==
  \E h \in HodIds, c \in ClassRefs, failedStep \in DOMAIN DeleteClassSteps :
    /\ Respond("deleteClass", h, c, <<>>, deleteClassFailing(h, c, failedStep))
    /\ UNCHANGED allocated

\* Professor p1 teaches both classes of tenant hA, p2 the first one; no
\* student is in a class yet.
InitDeleteClassFails ==
  /\ Class = [c \in ClassIds |->
                IF c = "c1" THEN [NewClass(1, "hA") EXCEPT !.professors = {"p1", "p2"}]
                ELSE [NewClass(2, "hA") EXCEPT !.professors = {"p1"}]]
  /\ Student = [s \in {"s1", "s3"} |->
                IF s = "s1" THEN NewStudent("e1", "hA") ELSE NewStudent("e3", "hB")]
  /\ Professor = [p \in ProfessorIds |->
                IF p = "p1" THEN [NewProfessor("hA") EXCEPT !.classes = {"c1", "c2"}]
                ELSE IF p = "p2" THEN [NewProfessor("hA") EXCEPT !.classes = {"c1"}]
                ELSE NewProfessor("hB")]
  /\ allocated = ClassIds \cup {"s1", "s3"} \cup ProfessorIds
  /\ last = NoRequest
  /\ prev = Roster
  /\ Attendance = EmptyBag
  /\ calls = [i \in CallIds |-> Idle]
  /\ InitTenants
  /\ audit = TRUE
NextDeleteClassFails ==
  \/ AssignStudentsToClass
  \/ DeleteClass
  \/ DeleteClassFails
SpecDeleteClassFails == InitDeleteClassFails /\ [][NextDeleteClassFails]_vars

\* No dangling and no one-sided reference between the three collections.
NoOneSidedReference(C, S, P) ==
  /\ \A c \in DOMAIN C :
       /\ C[c].students \subseteq DOMAIN S
       /\ C[c].professors \subseteq DOMAIN P
       /\ \A s \in C[c].students : c \in Ids(S[s].classIds)
       /\ \A p \in C[c].professors : c \in P[p].classes
  /\ \A s \in DOMAIN S : Ids(S[s].classIds) \subseteq DOMAIN C
  /\ \A p \in DOMAIN P : P[p].classes \subseteq DOMAIN C

\* C22: a deleteClass that fails after any of its store steps leaves no
\* dangling and no one-sided reference: from a store without such a
\* reference, the failed call leaves a store without one.
C22_FailedDeleteClassLeavesNoHalfReference ==
  [][(/\ NoOneSidedReference(Class, Student, Professor)
      /\ last'.op = "deleteClass"
      /\ last'.status = 500)
     => NoOneSidedReference(Class', Student', Professor')]_vars

\* A deleteClass failed at its last write: the class still lists a professor
\* who no longer lists the class.
C22_ProfessorHalfDetached ==
  /\ last.op = "deleteClass" /\ last.status = 500
  /\ NoOneSidedReference(prev.Class, prev.Student, prev.Professor)
  /\ \E c \in DOMAIN Class, p \in DOMAIN Professor :
       p \in Class[c].professors /\ c \notin Professor[p].classes

\* ------------------------------------------------------------------------
\* bulkDeleteClasses / bulkDeleteProfessors with a write that fails
\* ------------------------------------------------------------------------
\* Writes that are kept when a later one throws.
WithoutSession(before, partial) == partial
\* session.withTransaction whose callback throws: the transaction is
\* aborted and none of its writes is kept.
withTransactionAborted(before, partial) == before

\* The store after the first n writes of the bulkDeleteClasses callback.
bulkDeleteClassesWrites(classObjectIds, n) ==
  [Class |-> IF n >= 3 THEN Without(Class, classObjectIds) ELSE Class,
   Student |-> IF n >= 1
                 THEN [s \in DOMAIN Student |->
                         IF IsArray(Student[s].classIds)
                           THEN [Student[s] EXCEPT !.classIds = @ \ classObjectIds]
                           ELSE Student[s]]
                 ELSE Student,
   Professor |-> IF n >= 2 THEN ProfessorsPullClasses(Professor, classObjectIds)
                 ELSE Professor]

\* The store after the first n writes of the bulkDeleteProfessors callback.
bulkDeleteProfessorsWrites(profObjectIds, n) ==
  [Class |-> IF n >= 1 THEN ClassesPullProfessors(Class, profObjectIds) ELSE Class,
   Student |-> Student,
   Professor |-> IF n >= 2 THEN Without(Professor, profObjectIds) ELSE Professor]

\* bulkDeleteClasses whose write number failedStep throws inside the
\* transaction; the outer catch answers 500.
bulkDeleteClassesFailing(hodId, classIds, failedStep) ==
  LET validIds == {c \in Range(classIds) : ObjectIdIsValid(c)}
      classObjectIds == {c \in validIds : ClassOwned(c, hodId)}
      r == withTransactionAborted(Roster,
                                  bulkDeleteClassesWrites(classObjectIds, failedStep - 1))
  IN  IF Len(classIds) = 0 THEN {Fail(400)}
      ELSE IF validIds = {} THEN {Fail(400)}
      ELSE IF classObjectIds = {} THEN {Fail(404)}
      ELSE {Out(500, r.Class, r.Student, r.Professor)}

bulkDeleteProfessorsFailing(hodId, professorIds, failedStep) ==
  LET validIds == {p \in Range(professorIds) : ObjectIdIsValid(p)}
      profObjectIds == professorsFound(hodId, validIds)
      r == withTransactionAborted(Roster,
                                  bulkDeleteProfessorsWrites(profObjectIds, failedStep - 1))
  IN  IF Len(professorIds) = 0 THEN {Fail(400)}
      ELSE IF validIds = {} THEN {Fail(400)}
      ELSE IF profObjectIds = {} THEN {Fail(404)}
      ELSE {Out(500, r.Class, r.Student, r.Professor)}

BulkDeleteClassesFails ==
  \E h \in HodIds, ids \in IdLists(ClassIds \cup {BadId}), failedStep \in 1..3 :
    /\ Respond("bulkDeleteClasses", h, "", ids, bulkDeleteClassesFailing(h, ids, failedStep))
    /\ UNCHANGED allocated

BulkDeleteProfessorsFails ==
  \E h \in HodIds, ids \in IdLists(ProfessorRefs), failedStep \in 1..2 :
    /\ Respond("bulkDeleteProfessors", h, "", ids,
               bulkDeleteProfessorsFailing(h, ids, failedStep))
    /\ UNCHANGED allocated

NextBulkDelete ==
  \/ AssignStudentsToClass
  \/ DeleteClass
  \/ BulkDeleteClasses
  \/ BulkDeleteProfessors
  \/ BulkDeleteClassesFails
  \/ BulkDeleteProfessorsFails
SpecBulkDelete == InitDeleteClassFails /\ [][NextBulkDelete]_vars

\* The entities the latest bulk delete selected: the well-formed ids of the
\* request that named a document of the caller when the request arrived.
LastSelectedClasses ==
  {c \in Range(last.ids) : c \in DOMAIN prev.Class /\ prev.Class[c].createdBy = last.hod}
LastSelectedProfessors ==
  {p \in Range(last.ids) :
     p \in DOMAIN prev.Professor /\ prev.Professor[p].createdBy = last.hod}

\* C27: bulkDeleteClasses and bulkDeleteProfessors are all-or-nothing: either
\* every selected entity is deleted and no classIds, classes or professors
\* set names one of them, or no back-reference is removed and nothing is
\* deleted.
C27_BulkDeleteAllOrNothing ==
  /\ last.op = "bulkDeleteClasses" =>
       \/ /\ last.status = 200
          /\ LastSelectedClasses \cap DOMAIN Class = {}
          /\ \A s \in DOMAIN Student : Ids(Student[s].classIds) \cap LastSelectedClasses = {}
          /\ \A p \in DOMAIN Professor : Professor[p].classes \cap LastSelectedClasses = {}
       \/ last.status # 200 /\ Roster = prev
  /\ last.op = "bulkDeleteProfessors" =>
       \/ /\ last.status = 200
          /\ LastSelectedProfessors \cap DOMAIN Professor = {}
          /\ \A c \in DOMAIN Class : Class[c].professors \cap LastSelectedProfessors = {}
       \/ last.status # 200 /\ Roster = prev

\* A bulk delete of a class that has students and professors failed inside
\* its transaction, and the class is still there with both.
C27_Witness ==
  /\ last.op = "bulkDeleteClasses" /\ last.status = 500
  /\ \E c \in LastSelectedClasses :
       Class[c].students # {} /\ Class[c].professors # {}

\* ------------------------------------------------------------------------
\* assignProfessorsToClass / removeProfessorsFromClass as interleaved steps
\* ------------------------------------------------------------------------
\* A call keeps the class document it read (classData); save() writes the
\* professors array computed from that document as a whole ($set), and only
\* when it differs from what was read.
RosterOps == {"assignProfessorsToClass", "removeProfessorsFromClass"}

\* classData.save() after classData.professors = <array>
SaveProfessors(read, stored, computed) == IF computed = read THEN stored ELSE computed

\* The request arrives, Class.findOne reads the class and, for an assign,
\* Professor.find checks the professors.
RosterBegin(i) ==
  /\ calls[i].pc = "idle"
  /\ \E op \in RosterOps, c \in ClassIds, p \in ProfessorIds :
       LET h == "hA"
           call == [pc |-> "done", op |-> op, hod |-> h, classId |-> c, professor |-> p,
                    read |-> {}, status |-> 404]
       IN  calls' = [calls EXCEPT ![i] =
                       IF ~ClassOwned(c, h) THEN call
                       ELSE IF op = "assignProfessorsToClass" /\ professorsFound(h, {p}) = {}
                         THEN call
                       ELSE [call EXCEPT !.pc = IF op = "assignProfessorsToClass"
                                                  THEN "save" ELSE "pull",
                                         !.read = Class[c].professors,
                                         !.status = 0]]
  /\ UNCHANGED <<Class, Student, Professor, allocated, last, prev, audit, Attendance,
                 HOD, Counter, clock>>

\* classData.professors = merged (assign) or the filtered array (remove);
\* await classData.save()
RosterSave(i) ==
  LET call == calls[i]
      assign == call.op = "assignProfessorsToClass"
      computed == IF assign THEN call.read \cup {call.professor}
                  ELSE call.read \ {call.professor}
  IN  /\ call.pc = "save"
      /\ Class' = [Class EXCEPT ![call.classId].professors =
                     SaveProfessors(call.read, @, computed)]
      /\ calls' = [calls EXCEPT ![i].pc = IF assign THEN "addToSet" ELSE "done",
                                ![i].status = IF assign THEN 0 ELSE 200]
      /\ UNCHANGED <<Student, Professor, allocated, last, prev, audit, Attendance,
                     HOD, Counter, clock>>

\* Professor.updateMany({ _id: { $in } }, { $addToSet | $pull: { classes } })
RosterUpdateMany(i) ==
  LET call == calls[i]
      assign == call.op = "assignProfessorsToClass"
  IN  /\ call.pc \in {"addToSet", "pull"}
      /\ Professor' = [p \in DOMAIN Professor |->
                         IF p # call.professor THEN Professor[p]
                         ELSE IF assign
                           THEN [Professor[p] EXCEPT !.classes = @ \cup {call.classId}]
                         ELSE [Professor[p] EXCEPT !.classes = @ \ {call.classId}]]
      /\ calls' = [calls EXCEPT ![i].pc = IF assign THEN "done" ELSE "save",
                                ![i].status = IF assign THEN 200 ELSE 0]
      /\ UNCHANGED <<Class, Student, allocated, last, prev, audit, Attendance,
                     HOD, Counter, clock>>

\* Class c1 starts with no professor, or with p2 assigned to it.
InitRosterRace ==
  /\ \E start \in {{}, {"p2"}} :
       /\ Class = [c \in ClassIds |->
                     IF c = "c1" THEN [NewClass(1, "hA") EXCEPT !.professors = start]
                     ELSE NewClass(2, "hA")]
       /\ Professor = [p \in ProfessorIds |->
                         IF p = "p3" THEN NewProfessor("hB")
                         ELSE [NewProfessor("hA") EXCEPT
                                 !.classes = IF p \in start THEN {"c1"} ELSE {}]]
  /\ Student = [s \in {"s1", "s3"} |->
                IF s = "s1" THEN NewStudent("e1", "hA") ELSE NewStudent("e3", "hB")]
  /\ allocated = ClassIds \cup {"s1", "s3"} \cup ProfessorIds
  /\ last = NoRequest
  /\ prev = NoRequest
  /\ Attendance = EmptyBag
  /\ calls = [i \in CallIds |-> Idle]
  /\ InitTenants
  /\ audit = FALSE
NextRosterRace ==
  \E i \in CallIds : RosterBegin(i) \/ RosterSave(i) \/ RosterUpdateMany(i)
SpecRosterRace == InitRosterRace /\ [][NextRosterRace]_vars

\* Both calls have completed with success, on the same class and on
\* different professors.
BothRosterCallsDone ==
  /\ \A i \in CallIds : calls[i].pc = "done" /\ calls[i].status = 200
  /\ calls[1].classId = calls[2].classId
  /\ calls[1].professor # calls[2].professor

C25_AssignLost ==
  /\ BothRosterCallsDone
  /\ \A i \in CallIds : calls[i].op = "assignProfessorsToClass"
  /\ \E i \in CallIds : calls[i].professor \notin Class[calls[1].classId].professors
  /\ \A i \in CallIds : calls[1].classId \in Professor[calls[i].professor].classes

\* ------------------------------------------------------------------------
\* assignStudentsToClass against deleteClass and deleteStudent, as
\* interleaved store steps
\* ------------------------------------------------------------------------
RaceOps == {"assignStudentsToClass", "deleteClass", "deleteStudent"}

RaceCall(op, c, s, pc, status) ==
  [pc |-> pc, op |-> op, hod |-> "hA", classId |-> c, student |-> s, read |-> {},
   status |-> status]

\* The request arrives and the handler reads the documents it names:
\* Class.findOne (and Student.find) for an assign, Class.findOne for a
\* deleteClass, Student.findOne for a deleteStudent, which keeps the
\* student's classIds as read.
RaceBegin(i) ==
  /\ calls[i].pc = "idle"
  /\ \E op \in RaceOps, c \in ClassIds, s \in {"s1"} :
       calls' = [calls EXCEPT ![i] =
         CASE op = "assignStudentsToClass" ->
                IF ~ClassOwned(c, "hA") \/ studentsFound("hA", {s}) = {}
                  THEN RaceCall(op, c, s, "done", 404)
                  ELSE RaceCall(op, c, s, "Class.updateOne", 0)
           [] op = "deleteClass" ->
                IF ~ClassOwned(c, "hA") THEN RaceCall(op, c, s, "done", 404)
                ELSE RaceCall(op, c, s, "Student.updateMany", 0)
           [] op = "deleteStudent" ->
                IF studentsFound("hA", {s}) = {} THEN RaceCall(op, c, s, "done", 404)
                ELSE [RaceCall(op, c, s,
                               IF Ids(Student[s].classIds) # {} THEN "Class.updateMany"
                               ELSE "deleteOne", 0)
                        EXCEPT !.read = Ids(Student[s].classIds)]]
  /\ UNCHANGED <<Class, Student, Professor, allocated, last, prev, audit, Attendance,
                 HOD, Counter, clock>>

\* Class.updateOne({ _id }, { $addToSet: { students } }): matches nothing
\* when the class is gone.
AssignClassUpdate(i) ==
  LET call == calls[i]
  IN  /\ call.pc = "Class.updateOne" /\ call.op = "assignStudentsToClass"
      /\ Class' = [c \in DOMAIN Class |->
                     IF c = call.classId
                       THEN [Class[c] EXCEPT !.students = @ \cup {call.student}]
                       ELSE Class[c]]
      /\ calls' = [calls EXCEPT ![i].pc = "Student.updateMany"]
      /\ UNCHANGED <<Student, Professor, allocated, last, prev, audit, Attendance,
                     HOD, Counter, clock>>

\* Student.updateMany({ _id: { $in } }, { $addToSet: { classIds } })
AssignStudentUpdate(i) ==
  LET call == calls[i]
  IN  /\ call.pc = "Student.updateMany" /\ call.op = "assignStudentsToClass"
      /\ \E r \in StudentsAddClass(Student, DOMAIN Student \cap {call.student},
                                   call.classId) :
           /\ Student' = r.Student
           /\ calls' = [calls EXCEPT ![i].pc = "done",
                                     ![i].status = IF r.ok THEN 200 ELSE 500]
      /\ UNCHANGED <<Class, Professor, allocated, last, prev, audit, Attendance,
                     HOD, Counter, clock>>

\* deleteClass: Student.updateMany({ classIds: _id }, { $set: { classIds: null } })
DeleteClassDetachStudents(i) ==
  LET call == calls[i]
  IN  /\ call.pc = "Student.updateMany" /\ call.op = "deleteClass"
      /\ Student' = DetachStudentsOfClass(Student, call.classId)
      /\ calls' = [calls EXCEPT ![i].pc = "Professor.updateMany"]
      /\ UNCHANGED <<Class, Professor, allocated, last, prev, audit, Attendance,
                     HOD, Counter, clock>>

\* deleteClass: Professor.updateMany({ classes: _id }, { $pull: { classes: _id } })
DeleteClassDetachProfessors(i) ==
  LET call == calls[i]
  IN  /\ call.pc = "Professor.updateMany" /\ call.op = "deleteClass"
      /\ Professor' = ProfessorsPullClasses(Professor, {call.classId})
      /\ calls' = [calls EXCEPT ![i].pc = "deleteOne"]
      /\ UNCHANGED <<Class, Student, allocated, last, prev, audit, Attendance,
                     HOD, Counter, clock>>

\* deleteStudent: Class.updateMany({ _id: { $in: student.classIds } },
\*                                 { $pull: { students: student._id } })
DeleteStudentPull(i) ==
  LET call == calls[i]
  IN  /\ call.pc = "Class.updateMany" /\ call.op = "deleteStudent"
      /\ Class' = [c \in DOMAIN Class |->
                     IF c \in call.read
                       THEN [Class[c] EXCEPT !.students = @ \ {call.student}]
                       ELSE Class[c]]
      /\ calls' = [calls EXCEPT ![i].pc = "deleteOne"]
      /\ UNCHANGED <<Student, Professor, allocated, last, prev, audit, Attendance,
                     HOD, Counter, clock>>

\* classData.deleteOne() / student.deleteOne()
RaceDeleteOne(i) ==
  LET call == calls[i]
  IN  /\ call.pc = "deleteOne"
      /\ IF call.op = "deleteClass"
           THEN Class' = Without(Class, {call.classId}) /\ UNCHANGED Student
           ELSE Student' = Without(Student, {call.student}) /\ UNCHANGED Class
      /\ calls' = [calls EXCEPT ![i].pc = "done", ![i].status = 200]
      /\ UNCHANGED <<Professor, allocated, last, prev, audit, Attendance,
                     HOD, Counter, clock>>

\* Student s1 of tenant hA starts in no class, or in class c1.
InitAssignRace ==
  /\ \E start \in {{}, {"c1"}} :
       /\ Class = [c \in ClassIds |->
                     IF c = "c1"
                       THEN [NewClass(1, "hA") EXCEPT
                               !.students = IF c \in start THEN {"s1"} ELSE {}]
                       ELSE NewClass(2, "hA")]
       /\ Student = [s \in {"s1", "s3"} |->
                       IF s = "s1" THEN [NewStudent("e1", "hA") EXCEPT !.classIds = start]
                       ELSE NewStudent("e3", "hB")]
  /\ Professor = [p \in ProfessorIds |->
                    IF p = "p3" THEN NewProfessor("hB") ELSE NewProfessor("hA")]
  /\ allocated = ClassIds \cup {"s1", "s3"} \cup ProfessorIds
  /\ last = NoRequest
  /\ prev = NoRequest
  /\ Attendance = EmptyBag
  /\ calls = [i \in CallIds |-> Idle]
  /\ InitTenants
  /\ audit = FALSE
NextAssignRace ==
  \E i \in CallIds :
    \/ RaceBegin(i)
    \/ AssignClassUpdate(i)
    \/ AssignStudentUpdate(i)
    \/ DeleteClassDetachStudents(i)
    \/ DeleteClassDetachProfessors(i)
    \/ DeleteStudentPull(i)
    \/ RaceDeleteOne(i)
SpecAssignRace == InitAssignRace /\ [][NextAssignRace]_vars

\* One call assigned student S to class C, the other one deleted C or
\* deleted S, and both have completed.
AssignRacedDelete ==
  \E i, j \in CallIds :
    /\ calls[i].pc = "done" /\ calls[j].pc = "done"
    /\ calls[i].op = "assignStudentsToClass"
    /\ \/ calls[j].op = "deleteClass" /\ calls[j].classId = calls[i].classId
       \/ calls[j].op = "deleteStudent" /\ calls[j].student = calls[i].student

\* C26: once an assignStudentsToClass(C, [S]) and a deleteClass(C) or
\* deleteStudent(S) have both completed, in whatever order their store steps
\* interleaved, no student lists a class that no longer exists and no class
\* lists a student that no longer exists.
C26_NoDanglingAfterRace ==
  AssignRacedDelete =>
    /\ \A s \in DOMAIN Student : Ids(Student[s].classIds) \subseteq DOMAIN Class
    /\ \A c \in DOMAIN Class : Class[c].students \subseteq DOMAIN Student

\* Both calls answered 200 and the student lists the deleted class.
C26_StudentListsDeletedClass ==
  /\ \A i \in CallIds : calls[i].pc = "done" /\ calls[i].status = 200
  /\ AssignRacedDelete
  /\ \E s \in DOMAIN Student : ~(Ids(Student[s].classIds) \subseteq DOMAIN Class)

\* ------------------------------------------------------------------------
\* confirmDeleteHOD side by side with requests that create data
\* ------------------------------------------------------------------------
\* confirmDeleteHOD: HOD.findById and verifyOTP.
ConfirmBegin(i) ==
  /\ calls[i].pc = "idle"
  /\ \E h \in {"hA"}, otp \in OtpCodes :
       LET call == [pc |-> "done", op |-> "confirmDeleteHOD", hod |-> h,
                    professorIds |-> {}, studentIds |-> {}, classIds |-> {}, status |-> 400]
           status == IF h \in DOMAIN HOD
                       THEN verifyOTP(otp, HOD[h].deleteOtp.code, HOD[h].deleteOtp.expiresAt)
                       ELSE "invalid"
       IN  /\ status # "expired"
           /\ calls' = [calls EXCEPT ![i] =
                          IF status = "valid"
                            THEN [call EXCEPT !.pc = "cascade.find", !.status = 0]
                            ELSE call]
  /\ UNCHANGED <<Class, Student, Professor, allocated, last, prev, audit, Attendance,
                 HOD, Counter, clock>>

\* cascadeDelete: the three find({ createdBy: hodId }).select("_id")
CascadeFind(i) ==
  LET call == calls[i]
  IN  /\ call.pc = "cascade.find"
      /\ calls' = [calls EXCEPT
           ![i].pc = "cascade.delete",
           ![i].professorIds = {x \in DOMAIN Professor : Professor[x].createdBy = call.hod},
           ![i].studentIds = {x \in DOMAIN Student : Student[x].createdBy = call.hod},
           ![i].classIds = {x \in DOMAIN Class : Class[x].createdBy = call.hod}]
      /\ UNCHANGED <<Class, Student, Professor, allocated, last, prev, audit, Attendance,
                     HOD, Counter, clock>>

\* cascadeDelete: the five deletes, by the ids that were found.
CascadeDelete(i) ==
  LET call == calls[i]
  IN  /\ call.pc = "cascade.delete"
      /\ Professor' = Drop(Professor, call.professorIds)
      /\ Student' = Drop(Student, call.studentIds)
      /\ Class' = Drop(Class, call.classIds)
      /\ Counter' = Drop(Counter, {call.hod})
      /\ Attendance' = AttendanceDeleteMany(Attendance, call.studentIds, call.classIds,
                                            call.professorIds)
      /\ calls' = [calls EXCEPT ![i].pc = "hod.delete"]
      /\ UNCHANGED <<allocated, last, prev, audit, HOD, clock>>

\* HOD.findByIdAndDelete: the account document goes after the hook.
HodDelete(i) ==
  LET call == calls[i]
  IN  /\ call.pc = "hod.delete"
      /\ HOD' = Drop(HOD, {call.hod})
      /\ calls' = [calls EXCEPT ![i].pc = "done", ![i].status = 200]
      /\ UNCHANGED <<Class, Student, Professor, allocated, last, prev, audit, Attendance,
                     Counter, clock>>

\* createClass, addStudent and markBulkAttendance behind their middleware.
AuthorizedCreateBegin(i) == CreateBegin(i) /\ authorizeHOD(calls'[i].hod)

AuthorizedAddStudent ==
  \E h \in {"hA"}, e \in {"e2"}, newId \in StudentIds \ allocated :
    /\ authorizeHOD(h)
    /\ Respond("addStudent", h, newId, <<e, NoValue>>, addStudent(h, e, NoValue, newId))
    /\ allocated' = IF newId \in DOMAIN Student' THEN allocated \cup {newId} ELSE allocated

\* The tenant's deletion code is outstanding.
InitCascadeRace ==
  /\ Class = [c \in ClassIds |->
                IF c = "c1" THEN [NewClass(1, "hA") EXCEPT !.professors = {"p1"}]
                ELSE NewClass(2, "hA")]
  /\ Student = [s \in {"s1", "s3"} |->
                IF s = "s1" THEN NewStudent("e1", "hA") ELSE NewStudent("e3", "hB")]
  /\ Professor = [p \in ProfessorIds |->
                IF p = "p1" THEN [NewProfessor("hA") EXCEPT !.classes = {"c1"}]
                ELSE IF p = "p2" THEN NewProfessor("hA") ELSE NewProfessor("hB")]
  /\ allocated = ClassIds \cup {"s1", "s3"} \cup ProfessorIds
  /\ last = NoRequest
  /\ prev = Roster
  /\ Attendance = EmptyBag
  /\ calls = [i \in CallIds |-> Idle]
  /\ clock = 0
  /\ HOD = [h \in HodIds |->
              IF h = "hA"
                THEN [NewHOD("a@x.io") EXCEPT
                        !.deleteOtp = [code |-> "111111", expiresAt |-> OtpLifetime]]
                ELSE NewHOD("b@x.io")]
  /\ Counter = [h \in {"hA"} |-> 2]
  /\ audit = FALSE
NextCascadeRace ==
  \/ ConfirmBegin(1)
  \/ CascadeFind(1)
  \/ CascadeDelete(1)
  \/ HodDelete(1)
  \/ AuthorizedCreateBegin(2)
  \/ CounterFind(2)
  \/ CounterInc(2)
  \/ ClassCreate(2)
  \/ AuthorizedAddStudent
  \/ TenantMark
SpecCascadeRace == InitCascadeRace /\ [][NextCascadeRace]_vars

\* The tenant's deletion has answered 200 and no call is in flight.
CascadeCompleted ==
  /\ calls[1].pc = "done" /\ calls[1].status = 200
  /\ calls[2].pc \in {"idle", "done"}

\* C24: when confirmDeleteHOD of tenant T ran side by side with T's
\* createClass, addStudent and markBulkAttendance calls and all calls have
\* completed, no professor, student, class or counter of T and no attendance
\* record that names an entity of T is left.
C24_NothingLeftAfterConcurrentDelete ==
  CascadeCompleted =>
    /\ \A x \in DOMAIN Professor : Professor[x].createdBy # "hA"
    /\ \A x \in DOMAIN Student : Student[x].createdBy # "hA"
    /\ \A x \in DOMAIN Class : Class[x].createdBy # "hA"
    /\ "hA" \notin DOMAIN Counter
    /\ \A r \in BagToSet(Attendance) :
         /\ r.studentId \notin OwnedBy("hA")
         /\ r.classId \notin OwnedBy("hA")
         /\ r.markedBy \notin OwnedBy("hA")

\* The tenant is gone and a student it added while the cascade ran is left.
C24_OrphanStudent ==
  /\ CascadeCompleted
  /\ "hA" \notin DOMAIN HOD
  /\ \E x \in DOMAIN Student : Student[x].createdBy = "hA"

\* ------------------------------------------------------------------------
\* Two professors marking the same keys side by side
\* ------------------------------------------------------------------------
\* Professor p1 marks present and professor p2 marks absent, so that a
\* record tells which call wrote each of its two fields.
MarksOf(professorId) ==
  {<<[studentId |-> s, isPresent |-> professorId = "p1"]>> : s \in {"s1", "s3"}}
    \cup {<<[studentId |-> x[1], isPresent |-> professorId = "p1"],
            [studentId |-> x[2], isPresent |-> professorId = "p1"]>> :
            x \in {<<"s1", "s3">>, <<"s3", "s1">>}}

\* Call 1 is professor p1's, call 2 professor p2's; both mark class c2,
\* which has no professor list, on the same date and slot.
SameKeyBegin(i) ==
  /\ calls[i].pc = "idle"
  /\ \E p \in {IF i = 1 THEN "p1" ELSE "p2"}, records \in MarksOf(IF i = 1 THEN "p1" ELSE "p2") :
       /\ markBulkAttendanceChecks(p, "c2", "1", "1000", records) = 200
       /\ calls' = [calls EXCEPT ![i] =
                      [pc |-> "find", professorId |-> p, classId |-> "c2",
                       dateMs |-> resolveDateMs("1000"), slotNumber |-> Number("1"),
                       ops |-> dedupedRecords(records), found |-> FALSE]]
  /\ UNCHANGED <<Class, Student, Professor, allocated, last, prev, audit, Attendance,
                 HOD, Counter, clock>>

NextSameKey == \E i \in CallIds : SameKeyBegin(i) \/ Find(i) \/ Write(i)
SpecSameKey == InitAttendanceRace /\ [][NextSameKey]_vars

\* The record is the one professor p1's call writes, or the one p2's writes.
WholeMark(r) ==
  \/ r.isPresent /\ r.markedBy = "p1"
  \/ ~r.isPresent /\ r.markedBy = "p2"

\* C28: when two markBulkAttendance calls of professors P1 (presence v1) and
\* P2 (presence v2) write the same key side by side, there is one record for
\* the key; it carries (v1, P1) or (v2, P2) and never a mix, and every upsert
\* that changes the collection leaves the pair of the call that made it.
C28_LastCommitWinsWhole ==
  /\ [](\A r \in BagToSet(Attendance) : WholeMark(r) /\ Attendance[r] = 1)
  /\ [](\A r, q \in BagToSet(Attendance) : AttendanceKey(r) = AttendanceKey(q) => r = q)
  /\ [][\A i \in CallIds :
          (calls[i].pc = "write" /\ calls'[i] # calls[i] /\ Attendance' # Attendance) =>
            \E r \in Matching(Attendance', HeadKey(calls[i])) :
              /\ r.markedBy = calls[i].professorId
              /\ r.isPresent = Head(calls[i].ops).isPresent]_vars

\* Professor p1's upsert found no record for its key, and before it writes
\* professor p2's call has inserted the record for that key.
C28_Witness ==
  /\ calls[1].pc = "write" /\ ~calls[1].found
  /\ \E r \in Matching(Attendance, HeadKey(calls[1])) :
       ~r.isPresent /\ r.markedBy = "p2"

\* ------------------- the stages of one markBulkAttendance call -------------------
\* The order in which the handler's statements run, as the stage each one
\* belongs to.  A call record keeps the request, the stage the call is in
\* (pc), every stage it entered (stages) and the status it answered, 0 while
\* it has not answered.
StageDates == {"1000", NoValue}

StageCall(p, c, slot, d, records) ==
  [pc |-> "received", professorId |-> p, classId |-> c, slotNumber |-> slot,
   dateMs |-> d, records |-> records, stages |-> <<"received">>, status |-> 0,
   ops |-> <<>>]

\* errorResponse / next(err): the call answers and enters no further stage.
StageFail(call, status) == [call EXCEPT !.pc = "done", !.status = status]
StageEnter(call, stage) == [call EXCEPT !.pc = stage, !.stages = Append(@, stage)]

\* The request arrives: req.body and req.user are read.
StageReceive(i) ==
  /\ calls[i].pc \in {"idle", "done"}
  /\ \E p \in ProfessorIds, c \in ClassIds, slot \in SlotNumbers, d \in StageDates,
        records \in RecordLists :
       calls' = [calls EXCEPT ![i] = StageCall(p, c, slot, d, records)]
  /\ UNCHANGED <<Class, Student, Professor, allocated, last, prev, audit, Attendance,
               HOD, Counter, clock>>

\* The required fields and the empty records[] are refused with 400; the
\* next statement is resolveDateMs.
StageResolveDate(i) ==
  LET call == calls[i]
  IN  /\ call.pc = "received"
      /\ calls' = [calls EXCEPT ![i] =
                     IF call.classId = NoValue \/ call.slotNumber = NoValue
                        \/ Len(call.records) = 0
                       THEN StageFail(call, 400)
                       ELSE StageEnter(call, "date-resolved")]
      /\ UNCHANGED <<Class, Student, Professor, allocated, last, prev, audit, Attendance,
                   HOD, Counter, clock>>

\* No usable date is refused with 400; the next statement is
\* verifyProfessorAccessToClass.
StageCheckAccess(i) ==
  LET call == calls[i]
  IN  /\ call.pc = "date-resolved"
      /\ calls' = [calls EXCEPT ![i] =
                     IF resolveDateMs(call.dateMs) = 0
                       THEN StageFail(call, 400)
                       ELSE StageEnter(call, "access-checked")]
      /\ UNCHANGED <<Class, Student, Professor, allocated, last, prev, audit, Attendance,
                   HOD, Counter, clock>>

\* A class the professor may not mark is refused with the code of
\* verifyProfessorAccessToClass; the next statements build dedupedMap.
StageDeduplicate(i) ==
  LET call == calls[i]
      st == IF ~ObjectIdIsValid(call.classId) THEN 500
            ELSE verifyProfessorAccessToClass(call.professorId,
                                              Professor[call.professorId].createdBy,
                                              call.classId)
  IN  /\ call.pc = "access-checked"
      /\ calls' = [calls EXCEPT ![i] =
                     IF st # 200 THEN StageFail(call, st)
                     ELSE StageEnter(call, "deduplicated")]
      /\ UNCHANGED <<Class, Student, Professor, allocated, last, prev, audit, Attendance,
                   HOD, Counter, clock>>

\* The ops are built from dedupedRecords and handed to Attendance.bulkWrite.
StageBuildOps(i) ==
  LET call == calls[i]
  IN  /\ call.pc = "deduplicated"
      /\ calls' = [calls EXCEPT ![i] =
                     [StageEnter(call, "upserted") EXCEPT
                        !.ops = dedupedRecords(call.records)]]
      /\ UNCHANGED <<Class, Student, Professor, allocated, last, prev, audit, Attendance,
                   HOD, Counter, clock>>

\* Attendance.bulkWrite(ops) runs its ops in order.  The database may fail
\* it at any op: the ops before it stay written, the error goes to next(err)
\* and the call answers 500.  With every op done the notification part begins.
StageUpsert(i) ==
  LET call == calls[i]
  IN  /\ call.pc = "upserted"
      /\ \E k \in 0..Len(call.ops) :
           /\ Attendance' = bulkWrite(Attendance, SubSeq(call.ops, 1, k), call.classId,
                                      resolveDateMs(call.dateMs),
                                      Number(call.slotNumber), call.professorId)
           /\ calls' = [calls EXCEPT ![i] =
                          IF k < Len(call.ops) THEN StageFail(call, 500)
                          ELSE StageEnter(call, "notified")]
      /\ UNCHANGED <<Class, Student, Professor, allocated, last, prev, audit,
                   HOD, Counter, clock>>

\* The notification part runs inside its own try/catch: sent or failed, the
\* handler goes on to the response.
StageNotify(i) ==
  LET call == calls[i]
  IN  /\ call.pc = "notified"
      /\ calls' = [calls EXCEPT ![i] = StageEnter(call, "responded")]
      /\ UNCHANGED <<Class, Student, Professor, allocated, last, prev, audit, Attendance,
                   HOD, Counter, clock>>

\* res.status(200).json(...)
StageRespond(i) ==
  LET call == calls[i]
  IN  /\ call.pc = "responded"
      /\ calls' = [calls EXCEPT ![i].pc = "done", ![i].status = 200]
      /\ UNCHANGED <<Class, Student, Professor, allocated, last, prev, audit, Attendance,
                   HOD, Counter, clock>>

InitStages == InitAttendanceStore /\ audit = FALSE
NextStages ==
  \/ StageReceive(1)
  \/ StageResolveDate(1)
  \/ StageCheckAccess(1)
  \/ StageDeduplicate(1)
  \/ StageBuildOps(1)
  \/ StageUpsert(1)
  \/ StageNotify(1)
  \/ StageRespond(1)
SpecStages == InitStages /\ [][NextStages]_vars

IsPrefix(s, t) == Len(s) <= Len(t) /\ s = SubSeq(t, 1, Len(s))
InCall(i) == calls[i].pc # "idle"
Answered(i) == InCall(i) /\ calls[i].pc = "done"

\* The order the stages are documented in.
DocumentedOrder ==
  <<"received", "access-checked", "date-resolved", "deduplicated", "upserted",
    "notified", "responded">>
\* The order the statements of the handler run in.
StatementOrder ==
  <<"received", "date-resolved", "access-checked", "deduplicated", "upserted",
    "notified", "responded">>

\* A failed call entered no stage after the upsert, and a write to the
\* attendance collection is a step of the upsert stage.
OnlyEarlyStagesFail ==
  \A i \in CallIds :
    Answered(i) /\ calls[i].status # 200 =>
      "notified" \notin {calls[i].stages[n] : n \in 1..Len(calls[i].stages)}
WritesOnlyInUpsert ==
  Attendance' # Attendance => \E i \in CallIds : InCall(i) /\ calls[i].pc = "upserted"

\* C29: every markBulkAttendance call passes its stages in the order
\* received, access-checked, date-resolved, deduplicated, upserted, notified,
\* responded; a failure ends the call before any later stage, only the
\* stages up to the upsert fail the call, and nothing is written before the
\* upsert stage.
C29_StagesInDocumentedOrder ==
  /\ [](\A i \in CallIds : InCall(i) => IsPrefix(calls[i].stages, DocumentedOrder))
  /\ []OnlyEarlyStagesFail
  /\ [][WritesOnlyInUpsert]_vars

\* The same with the date resolved before the access check, as the
\* statements run.
C29_StagesInStatementOrder ==
  /\ [](\A i \in CallIds : InCall(i) => IsPrefix(calls[i].stages, StatementOrder))
  /\ []OnlyEarlyStagesFail
  /\ [][WritesOnlyInUpsert]_vars

\* A professor with no access to the class sends no date and is answered 400:
\* the date was looked at, the access check was never entered.
C29_DateRefusedBeforeAccess ==
  \E i \in CallIds :
    /\ Answered(i)
    /\ calls[i].status = 400
    /\ calls[i].stages = <<"received", "date-resolved">>
    /\ calls[i].dateMs = NoValue
    /\ Len(calls[i].records) > 0
    /\ verifyProfessorAccessToClass(calls[i].professorId,
                                    Professor[calls[i].professorId].createdBy,
                                    calls[i].classId) # 200

\* ------------------- the date an attendance mark is stored under -------------------
\* resolveDateMs with both of its inputs.  An instant is <<day, ms>> as in
\* getMonthlySummary; <<>> stands for undefined, null, '' and NaN.  A date
\* string "YYYY-MM-DD" is <<y, m, d>>, a text that is no date is <<0>>.
NoDate == <<>>

\* new Date("YYYY-MM-DD") is the first instant of that day in UTC; a text
\* that does not parse is an Invalid Date.
ParseDate(date) ==
  IF Len(date) = 3 THEN <<DaysFromCivil(date[1], date[2], date[3]), 0>> ELSE NoDate

\* new Date(d.getFullYear(), d.getMonth(), d.getDate()).getTime(): the first
\* instant of the local day d falls on; NaN for an Invalid Date.
LocalMidnightOf(d) == IF d = NoDate THEN NoDate ELSE GetTime(LocalDay(d), TimeMs(0, 0, 0, 0))

\* return Number(dateMs)
NumberOfDateMs(dateMs) == dateMs

normalizedDateMs(dateMs, date) ==
  IF dateMs # NoDate THEN NumberOfDateMs(dateMs)
  ELSE IF date # NoDate THEN LocalMidnightOf(ParseDate(date))
  ELSE NoDate

\* !normalizedDateMs: null, NaN and the number 0.
NoUsableDate(t) == t = NoDate \/ t = <<0, 0>>

\* The day the requests are about, 2024-01-15: its first instant in local
\* time, its first instant in UTC (05:30 local time), and no dateMs.
MarkedDay == <<2024, 1, 15>>
DateMsInputs ==
  {NoDate, <<0, 0>>,
   LocalMidnightOf(ParseDate(MarkedDay)),
   ParseDate(MarkedDay)}
DateInputs == {NoDate, <<0>>, MarkedDay}

\* One markBulkAttendance request with dateMs and date, served from start
\* to end.
MarkOnDate ==
  \E p \in {"p1", "p3"}, c \in {"c1"}, slot \in SlotNumbers, dateMs \in DateMsInputs,
     date \in DateInputs, records \in RecordLists :
    LET t == normalizedDateMs(dateMs, date)
        st == IF Len(records) = 0 THEN 400
              ELSE IF NoUsableDate(t) THEN 400
              ELSE verifyProfessorAccessToClass(p, Professor[p].createdBy, c)
    IN  /\ Attendance' = IF st # 200 THEN Attendance
                         ELSE bulkWrite(Attendance, dedupedRecords(records), c, t,
                                        Number(slot), p)
        /\ last' = IF st # 200 \/ dedupedRecords(records) = <<>> THEN NoRequest
                   ELSE [op |-> "markBulkAttendance", dateMs |-> dateMs, date |-> date]
        /\ UNCHANGED <<Class, Student, Professor, allocated, prev, audit, calls,
                     HOD, Counter, clock>>

InitDateKey == InitAttendanceStore /\ audit = FALSE
NextDateKey == MarkOnDate
SpecDateKey == InitDateKey /\ [][NextDateKey]_vars

IsLocalMidnight(t) == t = LocalMidnightOf(t)
SameDayKey(r) == <<r.studentId, r.classId, r.slotNumber, LocalDay(r.dateMs)>>

\* C30: every attendance record stored by markBulkAttendance has a dateMs
\* that is a local-midnight instant, whether the request carried dateMs or a
\* date string, so the marks of one student, class and slot on one calendar
\* day are one record.
C30_StoredAtLocalMidnight ==
  /\ \A r \in BagToSet(Attendance) : IsLocalMidnight(r.dateMs)
  /\ \A r, q \in BagToSet(Attendance) : SameDayKey(r) = SameDayKey(q) => r = q

\* A mark that arrived with a date string only is stored at local midnight.
C30_DateStringNormalised ==
  (last # NoRequest /\ last.dateMs = NoDate) =>
    \E r \in BagToSet(Attendance) :
      /\ r.dateMs = LocalMidnightOf(ParseDate(last.date))
      /\ IsLocalMidnight(r.dateMs)

\* Student s1 has two records for class c1, slot 1 on 2024-01-15: one stored
\* under the instant the request carried, one under the local midnight of
\* the date string.
C30_TwoMarksSameDay ==
  \E r, q \in BagToSet(Attendance) :
    /\ r # q
    /\ SameDayKey(r) = SameDayKey(q)
    /\ r.studentId = "s1" /\ r.classId = "c1"
    /\ ~IsLocalMidnight(r.dateMs)
    /\ IsLocalMidnight(q.dateMs)

\* ------------------- the counts of a markBulkAttendance response -------------------
Served == last # NoRequest /\ last.op = "markBulkAttendance" /\ last.status = 200

\* The well-formed studentIds of a records[] list, each once.
DistinctValid(records) ==
  {records[i].studentId : i \in {j \in 1..Len(records) : ObjectIdIsValid(records[j].studentId)}}

\* The positions of the ops built from records whose filter names student s.
OpsFor(records, s) ==
  {i \in 1..Len(dedupedRecords(records)) : dedupedRecords(records)[i].studentId = s}

\* C31: in every markBulkAttendance call that reaches the response,
\* savedCount is the number of distinct valid studentIds of the request, one
\* upsert is issued for each of them and none for anything else, and
\* savedCount + skippedCount is the number of submitted records.
C31_CountsAddUp ==
  Served =>
    /\ last.savedCount = Cardinality(DistinctValid(last.records))
    /\ \A s \in DistinctValid(last.records) : Cardinality(OpsFor(last.records, s)) = 1
    /\ Len(dedupedRecords(last.records)) = Cardinality(DistinctValid(last.records))
    /\ \A s \in DistinctValid(last.records) :
         Cardinality(Matching(Attendance,
                              <<s, last.classId, resolveDateMs(last.dateMs),
                                Number(last.slotNumber)>>)) = 1
    /\ last.savedCount + Len(last.skippedStudentIds) = Len(last.records)

\* A served call of two records, one saved and one skipped.
C31_Witness ==
  /\ Served
  /\ Len(last.records) = 2
  /\ last.savedCount = 1
  /\ Len(last.skippedStudentIds) = 1

\* ------------------- the batches of the notification stage -------------------
Flatten(batches) ==
  LET F[k \in 0..Len(batches)] == IF k = 0 THEN <<>> ELSE F[k - 1] \o batches[k]
  IN  F[Len(batches)]

\* Consecutive groups of arr: full ones, then a last one that may be shorter.
ConsecutiveBatches(batches, arr, size) ==
  /\ Flatten(batches) = arr
  /\ \A k \in 1..Len(batches) : Len(batches[k]) >= 1 /\ Len(batches[k]) <= size
  /\ \A k \in 1..(Len(batches) - 1) : Len(batches[k]) = size

Sending(i) == calls[i].pc \in {"send", "prune"}

\* One step of call i seen from its batches: they are built from the tokens
\* found; the batch in front is sent once and only then leaves the list,
\* whether its send returned, threw, or its clean-up threw; the stage goes on
\* to the response only from the last batch.
BatchStep(i) ==
  LET call == calls[i]
      after == calls'[i]
  IN  /\ (call.pc = "students" /\ after.pc = "send") =>
           /\ ConsecutiveBatches(after.batches, TokensOf(call.studentIds), BatchSize)
           /\ Len(after.batches) >= 1
      /\ (call.pc = "send" /\ after # call) =>
           \/ after.pc = "prune" /\ after.batches = call.batches
           \/ after.pc = "send" /\ Len(call.batches) > 1 /\ after.batches = Tail(call.batches)
           \/ after.pc = "respond" /\ Len(call.batches) = 1 /\ after.batches = <<>>
      /\ (call.pc = "prune" /\ after # call) =>
           \/ after.pc = "send" /\ Len(call.batches) > 1 /\ after.batches = Tail(call.batches)
           \/ after.pc = "respond" /\ Len(call.batches) = 1 /\ after.batches = <<>>

\* C32: the device tokens of the notification stage are split into
\* consecutive batches of at most BatchSize; the batches are sent in order,
\* each once, and a send that fails does not stop the stage: the batch after
\* it is sent too.
C32_EveryBatchAttemptedInOrder ==
  /\ [][\A i \in CallIds : BatchStep(i)]_vars
  /\ \A i \in CallIds :
       (calls[i].pc = "send" /\ Len(calls[i].batches) = 2)
         ~> (calls[i].pc = "send" /\ Len(calls[i].batches) = 1)

\* The second batch is about to be sent after the send of the first threw.
C32_Witness ==
  \E i \in CallIds :
    /\ calls[i].pc = "send"
    /\ Len(calls[i].batches) = 1
    /\ calls[i].faults = {"send"}
    /\ calls[i].studentIds = {"s1", "s3"}

\* ------------------- the token clean-up after one batch -------------------
\* The result of one token in response.responses: "ok" for success, else the
\* error code.
PermanentCodes ==
  {"messaging/invalid-argument", "messaging/invalid-registration-token",
   "messaging/registration-token-not-registered"}
ResultCodes == {"ok", "messaging/internal-error"} \cup PermanentCodes

\* Every token whose send did not succeed.
failedTokens(batch, responses) ==
  {batch[idx] : idx \in {k \in 1..Len(batch) : responses[k] # "ok"}}
\* invalidTokens after response.responses.forEach(...)
invalidTokens(batch, responses) ==
  {batch[idx] : idx \in {k \in 1..Len(batch) :
                           responses[k] # "ok" /\ responses[k] \in PermanentCodes}}

\* Student.updateMany({ fcmTokens: { $in } }, { $pull: { fcmTokens: { $in } } })
StudentsPullTokens(S, tokens) ==
  [x \in DOMAIN S |->
     IF S[x].fcmTokens \cap tokens # {}
       THEN [S[x] EXCEPT !.fcmTokens = @ \ tokens]
       ELSE S[x]]

\* One batch of the tokens of the students marked comes back from the
\* messaging service with one result per token, and the clean-up runs.
PruneBatch ==
  \E studentIds \in (SUBSET {"s1", "s3"}) \ {{}} :
    \E batch \in Range(chunkArray(TokensOf(studentIds), BatchSize)) :
      \E responses \in [1..Len(batch) -> ResultCodes] :
        /\ Student' = IF invalidTokens(batch, responses) = {} THEN Student
                      ELSE StudentsPullTokens(Student, invalidTokens(batch, responses))
        /\ last' = [op |-> "prune", batch |-> batch, responses |-> responses]
        /\ prev' = [Student |-> Student, Attendance |-> Attendance]
        /\ UNCHANGED <<Class, Professor, allocated, audit, calls, Attendance,
                       HOD, Counter, clock>>

\* The store of the notification stage with one mark written.
InitPrune ==
  /\ Class = [c \in ClassIds |-> IF c = "c1" THEN NewClass(1, "hA") ELSE NewClass(2, "hA")]
  /\ Student = [x \in {"s1", "s3"} |->
                IF x = "s1" THEN TokenStudent("e1", "hA", {"t1", "t2"})
                ELSE TokenStudent("e3", "hB", {"t2", "t3"})]
  /\ Professor = [x \in ProfessorIds |->
                IF x = "p3" THEN NewProfessor("hB") ELSE NewProfessor("hA")]
  /\ allocated = ClassIds \cup {"s1", "s3"} \cup ProfessorIds
  /\ last = NoRequest
  /\ prev = Roster
  /\ Attendance = InsertMark(EmptyBag, <<"s1", "c1", 1000, 1>>, TRUE, "p1")
  /\ calls = [i \in CallIds |-> Idle]
  /\ InitTenants
  /\ audit = TRUE
NextPrune == PruneBatch
SpecPrune == InitPrune /\ [][NextPrune]_vars

Pruned == last # NoRequest /\ last.op = "prune"
RejectedForGood(batch, responses) ==
  {t \in Range(batch) : \E k \in 1..Len(batch) : batch[k] = t /\ responses[k] \in PermanentCodes}

ClassesUploaded == last # NoRequest /\ last.op = "bulkUploadClasses"
\* The classes the last upload created for the key `name`.
CreatedFor(name) ==
  {x \in DOMAIN Class \ DOMAIN prev.Class :
     Class[x].createdBy = last.hod /\ ToLowerCase(Class[x].className) = ToLowerCase(name)}
HadClass(name) ==
  \E x \in DOMAIN prev.Class :
    /\ prev.Class[x].createdBy = last.hod
    /\ ToLowerCase(prev.Class[x].className) = ToLowerCase(name)

\* C34: bulkUploadClasses creates at most one class for each distinct key
\* of the file and none for a key the tenant already holds: a row whose key
\* came earlier in the file is skipped.
C34_OneClassPerKey ==
  ClassesUploaded =>
    \A k \in 1..Len(last.rows) :
      /\ Cardinality(CreatedFor(last.rows[k])) <= 1
      /\ HadClass(last.rows[k]) => CreatedFor(last.rows[k]) = {}

\* No class is created for a key the tenant already holds.
C34_ExistingKeySkipped ==
  ClassesUploaded =>
    \A k \in 1..Len(last.rows) : HadClass(last.rows[k]) => CreatedFor(last.rows[k]) = {}

\* An upload answered 201 created two classes for one key of its file.
C34_TwoClassesForOneKey ==
  /\ ClassesUploaded
  /\ last.status = 201
  /\ last.totalUploaded = 2
  /\ \E k \in 1..Len(last.rows) : Cardinality(CreatedFor(last.rows[k])) = 2

\* ------------------- bulkUploadProfessors: every row accounted for -------------------
\* The upload with its file, the existingSet it read and the errors list of
\* its insert loop kept in the call.
UploadCall(hodId, rows, c, pc, st) ==
  [pc |-> pc, op |-> "bulkUploadProfessors", hod |-> hodId, rows |-> rows,
   existing |-> existingSet(hodId), queued |-> c.toInsert, toInsert |-> c.toInsert,
   inserted |-> <<>>, skipped |-> c.skipped, errors |-> <<>>, status |-> st]

\* The handler up to its first Professor.create.
UploadBegin(i) ==
  /\ calls[i].pc \in {"idle", "done"}
  /\ \E h \in {"hA"}, rows \in UsernameRows :
       LET c == Classify(h, rows)
           none == [toInsert |-> <<>>, skipped |-> <<>>]
       IN  calls' = [calls EXCEPT ![i] =
                       IF Len(rows) = 0 THEN UploadCall(h, rows, none, "done", 400)
                       ELSE IF Len(c.toInsert) = 0 THEN UploadCall(h, rows, c, "done", 200)
                       ELSE UploadCall(h, rows, c, "insert", 0)]
  /\ UNCHANGED <<Class, Student, Professor, allocated, last, prev, audit, Attendance,
                 HOD, Counter, clock>>

\* One turn of the insert loop.  Professor.create stores the document, or the
\* unique index refuses it and the catch reports the row as skipped, or it
\* throws something else (a validation error, the database) and the catch
\* reports the row in errors.  After the last row the handler answers 201.
UploadCreate(i) ==
  LET call == calls[i]
      u == Head(call.toInsert)
      id == FreshProfessorId(u, call.hod)
      rest == [call EXCEPT !.toInsert = Tail(@),
                           !.pc = IF Len(call.toInsert) = 1 THEN "done" ELSE "insert",
                           !.status = IF Len(call.toInsert) = 1 THEN 201 ELSE 0]
  IN  /\ call.pc = "insert"
      /\ \/ /\ ProfessorIndexAllows(u, call.hod)
            /\ Professor' = [x \in DOMAIN Professor \cup {id} |->
                               IF x = id THEN NamedProfessor(u, call.hod) ELSE Professor[x]]
            /\ allocated' = allocated \cup {id}
            /\ calls' = [calls EXCEPT ![i] = [rest EXCEPT !.inserted = Append(@, u)]]
         \/ /\ ~ProfessorIndexAllows(u, call.hod)
            /\ UNCHANGED <<Professor, allocated>>
            /\ calls' = [calls EXCEPT ![i] =
                           [rest EXCEPT !.skipped =
                              Append(@, [username |-> u,
                                         reason |-> "duplicate key error on insert (race?)"])]]
         \/ /\ UNCHANGED <<Professor, allocated>>
            /\ calls' = [calls EXCEPT ![i] =
                           [rest EXCEPT !.errors =
                              Append(@, [username |-> u, error |-> "create failed"])]]
      /\ UNCHANGED <<Class, Student, last, prev, audit, Attendance, HOD, Counter, clock>>

NextProfessorUpload == \E i \in CallIds : UploadBegin(i) \/ UploadCreate(i)
SpecProfessorUpload == InitBulkUpload /\ [][NextProfessorUpload]_vars

UploadAnswered(i) == calls[i].pc = "done" /\ calls[i].status \in {200, 201}
SkippedAs(call, reason) == {j \in DOMAIN call.skipped : call.skipped[j].reason = reason}
TimesIn(seq, u) == Cardinality({j \in DOMAIN seq : seq[j] = u})
FirstInFile(call, k) ==
  /\ ToLowerCase(call.rows[k]) \notin call.existing
  /\ \A j \in 1..(k - 1) : ToLowerCase(call.rows[j]) # ToLowerCase(call.rows[k])
OutcomesOf(call, u) ==
  TimesIn(call.inserted, u)
    + Cardinality({j \in SkippedAs(call, "duplicate key error on insert (race?)") :
                     call.skipped[j].username = u})
    + Cardinality({j \in DOMAIN call.errors : call.errors[j].username = u})

\* C35: in an answered bulkUploadProfessors call the rows whose lower-cased
\* username the tenant already held are skipped as already existing, the
\* rows whose key came earlier in the file as duplicates in the file, every
\* other row is attempted exactly once, in file order, and
\* inserted + skipped + errors is the number of rows processed.
C35_EveryRowAccountedFor ==
  \A i \in CallIds :
    UploadAnswered(i) =>
      LET call == calls[i]
          known == {k \in DOMAIN call.rows : ToLowerCase(call.rows[k]) \in call.existing}
          first == {k \in DOMAIN call.rows : FirstInFile(call, k)}
      IN  /\ Cardinality(SkippedAs(call, "already exists (DB)")) = Cardinality(known)
          /\ Cardinality(SkippedAs(call, "duplicate in uploaded file"))
               = Len(call.rows) - Cardinality(known) - Cardinality(first)
          /\ Len(call.queued) = Cardinality(first)
          /\ \A k \in first :
               /\ TimesIn(call.queued, call.rows[k]) = 1
               /\ OutcomesOf(call, call.rows[k]) = 1
          /\ \A a, b \in DOMAIN call.queued :
               a < b => \E k, l \in first :
                          k < l /\ call.rows[k] = call.queued[a] /\ call.rows[l] = call.queued[b]
          /\ Len(call.inserted) + Len(call.skipped) + Len(call.errors) = Len(call.rows)

\* A file of two rows with one key: the first was attempted and failed, the
\* second was skipped as a duplicate in the file.
C35_Witness ==
  \E i \in CallIds :
    /\ UploadAnswered(i)
    /\ calls[i].rows = <<"u2", "U2">>
    /\ Len(calls[i].errors) = 1
    /\ SkippedAs(calls[i], "duplicate in uploaded file") # {}

\* ------------------- a bulk upload issued again -------------------
\* The first run of an upload ends by itself or is cut short by a failure of
\* the database after `n` of its writes; the caller then sends the same file
\* again.  `last` keeps the file and which run it was, `prev` the counter
\* before the run.

\* The professor upload with nothing running beside it; the creates at the
\* positions `failed` of the queue throw something other than a duplicate key.
uploadProfessors(hodId, rows, failed) ==
  LET queue == Classify(hodId, rows).toInsert
      F[i \in 0..Len(queue)] ==
        IF i = 0 THEN Professor
        ELSE LET P == F[i - 1]
                 id == FreshProfessorId(queue[i], hodId)
             IN  IF i \in failed THEN P
                 ELSE IF \E x \in DOMAIN P :
                           P[x].username = queue[i] /\ P[x].createdBy = hodId
                   THEN P
                 ELSE [x \in DOMAIN P \cup {id} |->
                         IF x = id THEN NamedProfessor(queue[i], hodId) ELSE P[x]]
  IN  F[Len(queue)]

\* bulkUploadClasses cut short in its insert loop: n rows are created, and
\* the failure comes from Counter.findOneAndUpdate (counted = FALSE) or from
\* the Class.create after it (counted = TRUE).
bulkUploadClassesCut(hodId, rows, n, counted) ==
  LET w == CreateClasses(hodId, SubSeq(classesToInsert(hodId, rows), 1, n))
      seq == IF counted THEN w.seq + 1 ELSE w.seq
  IN  [Class |-> w.Class,
       Counter |-> IF seq = 0 THEN Counter
                   ELSE [x \in DOMAIN Counter \cup {hodId} |->
                           IF x = hodId THEN seq ELSE Counter[x]]]

\* bulkUploadStudents cut short in Student.insertMany after n documents.
bulkUploadStudentsCut(hodId, rows, n) ==
  insertMany(Student, SubSeq(newStudents(rows), 1, n), hodId).Student

\* The entities a store holds for the key of a row of an uploaded file.
EntitiesOf(op, h, key, C, S, P) ==
  IF op = "bulkUploadClasses"
    THEN {x \in DOMAIN C : C[x].createdBy = h
                            /\ ToLowerCase(C[x].className) = ToLowerCase(key)}
  ELSE IF op = "bulkUploadStudents"
    THEN {x \in DOMAIN S : S[x].enrollmentNumber = key}
  ELSE {x \in DOMAIN P : P[x].createdBy = h
                          /\ ToLowerCase(P[x].username) = ToLowerCase(key)}

\* `single` tells that the store held no key of the file twice when the file
\* was first sent.
\* The sequence value past which no further upload is started.
MaxSeq == 5

RunLog(op, run, h, rows) ==
  [op |-> op, run |-> run, hod |-> h, rows |-> rows,
   single |-> \A k \in DOMAIN rows :
                Cardinality(EntitiesOf(op, h, rows[k], Class, Student, Professor)) <= 1]
Reissue(op) == last # NoRequest /\ last.op = op /\ last.run = "first"
Kind(op) == last = NoRequest \/ last.op = op

ClassesFirstRun ==
  /\ Kind("bulkUploadClasses")
  /\ CounterSeq("hA") < MaxSeq
  /\ \E h \in {"hA"}, rows \in ClassNameRows \ {<<>>} :
       /\ \/ \E o \in {bulkUploadClasses(h, rows)} :
               Class' = o.Class /\ Counter' = o.Counter
          \/ \E n \in 0..(Len(classesToInsert(h, rows)) - 1), counted \in BOOLEAN :
               \E o \in {bulkUploadClassesCut(h, rows, n, counted)} :
                 Class' = o.Class /\ Counter' = o.Counter
       /\ last' = RunLog("bulkUploadClasses", "first", h, rows)
  /\ allocated' = allocated \cup DOMAIN Class'
  /\ prev' = [Class |-> Class, Counter |-> Counter]
  /\ UNCHANGED <<Student, Professor, audit, Attendance, calls, HOD, clock>>

ClassesRetry ==
  /\ Reissue("bulkUploadClasses")
  /\ \E o \in {bulkUploadClasses(last.hod, last.rows)} :
       Class' = o.Class /\ Counter' = o.Counter
  /\ last' = [last EXCEPT !.run = "retry"]
  /\ allocated' = allocated \cup DOMAIN Class'
  /\ prev' = [Class |-> Class, Counter |-> Counter]
  /\ UNCHANGED <<Student, Professor, audit, Attendance, calls, HOD, clock>>

StudentsFirstRun ==
  /\ Kind("bulkUploadStudents")
  /\ \E h \in {"hA"}, rows \in EnrollmentRows \ {<<>>} :
       /\ \/ Student' = bulkUploadStudents(h, rows).Student
          \/ \E n \in 0..(Len(newStudents(rows)) - 1) :
               Student' = bulkUploadStudentsCut(h, rows, n)
       /\ last' = RunLog("bulkUploadStudents", "first", h, rows)
  /\ allocated' = allocated \cup DOMAIN Student'
  /\ prev' = [Class |-> Class, Counter |-> Counter]
  /\ UNCHANGED <<Class, Professor, audit, Attendance, calls, HOD, Counter, clock>>

StudentsRetry ==
  /\ Reissue("bulkUploadStudents")
  /\ Student' = bulkUploadStudents(last.hod, last.rows).Student
  /\ last' = [last EXCEPT !.run = "retry"]
  /\ allocated' = allocated \cup DOMAIN Student'
  /\ prev' = [Class |-> Class, Counter |-> Counter]
  /\ UNCHANGED <<Class, Professor, audit, Attendance, calls, HOD, Counter, clock>>

ProfessorsFirstRun ==
  /\ Kind("bulkUploadProfessors")
  /\ \E h \in {"hA"}, rows \in UsernameRows \ {<<>>} :
       /\ \E failed \in SUBSET (1..Len(Classify(h, rows).toInsert)) :
            Professor' = uploadProfessors(h, rows, failed)
       /\ last' = RunLog("bulkUploadProfessors", "first", h, rows)
  /\ allocated' = allocated \cup DOMAIN Professor'
  /\ prev' = [Class |-> Class, Counter |-> Counter]
  /\ UNCHANGED <<Class, Student, audit, Attendance, calls, HOD, Counter, clock>>

ProfessorsRetry ==
  /\ Reissue("bulkUploadProfessors")
  /\ Professor' = uploadProfessors(last.hod, last.rows, {})
  /\ last' = [last EXCEPT !.run = "retry"]
  /\ allocated' = allocated \cup DOMAIN Professor'
  /\ prev' = [Class |-> Class, Counter |-> Counter]
  /\ UNCHANGED <<Class, Student, audit, Attendance, calls, HOD, Counter, clock>>

NextRetry ==
  \/ ClassesFirstRun
  \/ ClassesRetry
  \/ StudentsFirstRun
  \/ StudentsRetry
  \/ ProfessorsFirstRun
  \/ ProfessorsRetry
SpecRetry == InitBulkUpload /\ [][NextRetry]_vars

Retried == last # NoRequest /\ last.run = "retry"
EntitiesFor(key) == EntitiesOf(last.op, last.hod, key, Class, Student, Professor)
SeqOf(C, h) == IF h \in DOMAIN C THEN C[h] ELSE 0
RetrySafe ==
  /\ \A k \in DOMAIN last.rows : Cardinality(EntitiesFor(last.rows[k])) = 1
  /\ last.op = "bulkUploadClasses" =>
       SeqOf(Counter, last.hod) - SeqOf(prev.Counter, last.hod)
         = Cardinality(DOMAIN Class \ DOMAIN prev.Class)
KeysRepeat == \E j, k \in DOMAIN last.rows : j < k /\ ToLowerCase(last.rows[j]) = ToLowerCase(last.rows[k])

\* C36: after an upload of professors, students or classes was issued again,
\* whether its first run completed or failed partway, the store holds
\* exactly one entity for every key of the file, and the second run of a
\* class upload took one sequence value for each class it created and none
\* for a row it skipped.
C36_RetryCreatesNoSecondEntity == Retried => RetrySafe

\* The same for the files in which no key comes twice, sent to a store that
\* held none of their keys twice.
C36_RetrySafeForDistinctKeys == (Retried /\ ~KeysRepeat /\ last.single) => RetrySafe

\* A class file issued twice left two classes for one of its keys.
C36_TwoClassesAfterRetry ==
  /\ Retried
  /\ last.op = "bulkUploadClasses"
  /\ \E k \in DOMAIN last.rows : Cardinality(EntitiesFor(last.rows[k])) = 2

\* ------------------------------------------------------------------------
\* hod.controller: registerHOD, verifyOTPHandler, resendOTP, loginHOD,
\* loginHODByEmail, and the routes behind authorizeHOD
\* A tenant is named by its id, which also stands for its username.
\* ------------------------------------------------------------------------
\* The codes each handler draws, kept apart by value to tell what a stored
\* code was issued for.
RegistrationCodes == {"111111"}
UpdateCodes == {"222222"}
DeleteCodes == {"333333"}
SubmittedCodes == RegistrationCodes \cup UpdateCodes \cup DeleteCodes

HodsOfEmail(email) == {h \in DOMAIN HOD : HOD[h].email = email}
HodOfEmail(email) == CHOOSE h \in HodsOfEmail(email) : TRUE
Account(st, H) == [status |-> st, HOD |-> H]

\* authenticate, authorizeHOD and the handler behind them: 404 for a token
\* whose tenant is gone, 403 for an unverified tenant.
guardedByAuthorizeHOD(hodId) ==
  IF hodId \notin DOMAIN HOD THEN 404
  ELSE IF ~authorizeHOD(hodId) THEN 403
  ELSE 200

\* The document is created before the mail is sent.
registerHOD(hodId, email, code, mailFails) ==
  IF HodsOfEmail(email) # {} \/ hodId \in DOMAIN HOD THEN Account(400, HOD)
  ELSE Account(IF mailFails THEN 500 ELSE 201,
               [h \in DOMAIN HOD \cup {hodId} |->
                  IF h = hodId
                    THEN [NewHOD(email) EXCEPT !.verified = FALSE, !.otp = generateOTP(code)]
                    ELSE HOD[h]])

verifyOTPHandler(email, otp) ==
  IF HodsOfEmail(email) = {} THEN Account(404, HOD)
  ELSE LET h == HodOfEmail(email)
           status == verifyOTP(otp, HOD[h].otp.code, HOD[h].otp.expiresAt)
       IN  IF HOD[h].verified THEN Account(400, HOD)
           ELSE IF status = "invalid" THEN Account(400, HOD)
           ELSE IF status = "expired"
             THEN Account(400, [HOD EXCEPT ![h].otp = NoOtp])
           ELSE Account(200, [HOD EXCEPT ![h].verified = TRUE, ![h].otp = NoOtp])

\* The new code is saved before the mail is sent.
resendOTP(email, code, mailFails) ==
  IF HodsOfEmail(email) = {} THEN Account(404, HOD)
  ELSE LET h == HodOfEmail(email)
       IN  IF HOD[h].verified THEN Account(400, HOD)
           ELSE Account(IF mailFails THEN 500 ELSE 200,
                        [HOD EXCEPT ![h].otp = generateOTP(code)])

loginHOD(username, password) ==
  IF username \notin DOMAIN HOD THEN 401
  ELSE IF ~HOD[username].verified THEN 401
  ELSE IF Hash(password) # HOD[username].password THEN 401
  ELSE 200

loginHODByEmail(email, altPassword) ==
  IF HodsOfEmail(email) = {} THEN 401
  ELSE IF ~HOD[HodOfEmail(email)].verified THEN 401
  ELSE IF Hash(altPassword) # HOD[HodOfEmail(email)].altPassword THEN 401
  ELSE 200

AccountEmails == {"a@x.io", "b@x.io"}

AccountRespond(op, hodId, otp, o) ==
  /\ HOD' = o.HOD
  /\ last' = LogTenant(op, hodId, otp, o.status)
  /\ UNCHANGED <<Class, Student, Professor, allocated, prev, audit, Attendance, calls,
                 Counter, clock>>

RegisterHOD ==
  \E h \in HodIds, email \in AccountEmails, code \in RegistrationCodes,
     mailFails \in BOOLEAN :
    AccountRespond("registerHOD", h, code, registerHOD(h, email, code, mailFails))

\* The log names the tenant the address belongs to, "" when it is nobody's.
VerifyOTPHandler ==
  \E email \in AccountEmails, otp \in SubmittedCodes :
    AccountRespond("verifyOTPHandler",
                   IF HodsOfEmail(email) = {} THEN "" ELSE HodOfEmail(email),
                   otp, verifyOTPHandler(email, otp))

ResendOTP ==
  \E email \in AccountEmails, code \in RegistrationCodes, mailFails \in BOOLEAN :
    AccountRespond("resendOTP",
                   IF HodsOfEmail(email) = {} THEN "" ELSE HodOfEmail(email),
                   code, resendOTP(email, code, mailFails))

LoginHOD ==
  \E h \in HodIds, password \in {"pw0", "pw1"} :
    AccountRespond("loginHOD", h, "", Account(loginHOD(h, password), HOD))

LoginHODByEmail ==
  \E email \in AccountEmails, altPassword \in {"alt0"} :
    AccountRespond("loginHODByEmail",
                   IF HodsOfEmail(email) = {} THEN "" ELSE HodOfEmail(email),
                   "", Account(loginHODByEmail(email, altPassword), HOD))

\* GET /profile with the token of tenant h.
GetHODProfile ==
  \E h \in HodIds :
    AccountRespond("getHODProfile", h, "", Account(guardedByAuthorizeHOD(h), HOD))

\* PUT /update behind authorizeHOD; the mail goes out.
GuardedUpdateHOD ==
  \E h \in UpdatingHods, email \in {NoValue, "c@x.io"}, password \in UpdatePasswords,
     code \in UpdateCodes :
    AccountRespond("updateHOD", h, code,
                   IF guardedByAuthorizeHOD(h) # 200
                     THEN Account(guardedByAuthorizeHOD(h), HOD)
                     ELSE updateHOD(h, email, password, NoValue, code, FALSE))

\* POST /verify-update-otp: authenticate only.
AccountVerifyUpdateOTP ==
  \E h \in UpdatingHods, otp \in SubmittedCodes :
    AccountRespond("verifyUpdateOTP", h, otp, verifyUpdateOTP(h, otp))

\* POST /delete-request behind authorizeHOD
GuardedSendDeleteOTP ==
  \E h \in UpdatingHods, code \in DeleteCodes :
    RespondTenant("sendDeleteOTP", h, code,
                  IF guardedByAuthorizeHOD(h) # 200
                    THEN Answer(guardedByAuthorizeHOD(h), Store)
                    ELSE sendDeleteOTP(h, code, FALSE))

\* POST /confirm-delete behind authorizeHOD
GuardedConfirmDeleteHOD ==
  \E h \in UpdatingHods, otp \in SubmittedCodes :
    RespondTenant("confirmDeleteHOD", h, otp,
                  IF guardedByAuthorizeHOD(h) # 200
                    THEN Answer(guardedByAuthorizeHOD(h), Store)
                    ELSE confirmDeleteHOD(h, otp, {}, FALSE))

\* Tenant hA is registered and verified; nobody holds the address b@x.io.
InitAccount ==
  /\ Class = [c \in ClassIds |-> IF c = "c1" THEN NewClass(1, "hA") ELSE NewClass(2, "hA")]
  /\ Student = [x \in {"s1"} |-> NewStudent("e1", "hA")]
  /\ Professor = [x \in {"p1"} |-> NewProfessor("hA")]
  /\ allocated = ClassIds \cup {"s1", "p1"}
  /\ last = NoRequest
  /\ prev = [h \in HodIds |-> NoStaged]
  /\ Attendance = EmptyBag
  /\ calls = [i \in CallIds |-> Idle]
  /\ HOD = [h \in {"hA"} |-> NewHOD("a@x.io")]
  /\ Counter = [h \in {"hA"} |-> 2]
  /\ clock = 0
  /\ audit = FALSE
NextAccount ==
  \/ RegisterHOD
  \/ VerifyOTPHandler
  \/ ResendOTP
  \/ LoginHOD
  \/ LoginHODByEmail
  \/ GetHODProfile
  \/ GuardedUpdateHOD
  \/ AccountVerifyUpdateOTP
  \/ GuardedSendDeleteOTP
  \/ GuardedConfirmDeleteHOD
  \/ Tick
SpecAccount == InitAccount /\ [][NextAccount]_vars

Unverified(h) == h \in DOMAIN HOD /\ ~HOD[h].verified
\* A step in which tenant h submitted the code its otp slot held, in time.
CodeChecked(h) ==
  /\ last'.op \in {"verifyOTPHandler", "verifyUpdateOTP"}
  /\ last'.hod = h
  /\ last'.status = 200
  /\ last'.id = HOD[h].otp.code
  /\ clock <= HOD[h].otp.expiresAt

\* C37: a tenant created by registerHOD is unverified; an unverified tenant
\* is refused by loginHOD, by loginHODByEmail and by the routes behind
\* authorizeHOD, and no updateHOD changes its document; and verified turns true only in a step of verifyOTPHandler
\* or verifyUpdateOTP that was given the stored code before it expired.
C37_VerifiedOnlyByCode ==
  /\ [][\A h \in HodIds :
          /\ (h \notin DOMAIN HOD /\ h \in DOMAIN HOD') =>
               last'.op = "registerHOD" /\ ~HOD'[h].verified
          /\ (h \in DOMAIN HOD' /\ HOD'[h].verified /\ Unverified(h)) => CodeChecked(h)]_vars
  /\ [](\A h \in HodIds :
          (Unverified(h) /\ last.hod = h
             /\ last.op \in {"loginHOD", "loginHODByEmail", "getHODProfile",
                              "sendDeleteOTP", "confirmDeleteHOD"}) =>
            last.status \in {401, 403})
  /\ [][\A h \in HodIds :
          (Unverified(h) /\ last'.op = "updateHOD" /\ last'.hod = h) =>
            HOD'[h] = HOD[h]]_vars

\* Tenant hB registered, was refused at login with its password, and then
\* verified its address.
C37_Witness ==
  /\ "hB" \in DOMAIN HOD
  /\ HOD["hB"].verified
  /\ last.op = "verifyOTPHandler" /\ last.hod = "hB" /\ last.status = 200

\* ------------------- the one-time codes of the three purposes -------------------
RegistrationOps == {"registerHOD", "verifyOTPHandler", "resendOTP"}
UpdateOps == {"updateHOD", "verifyUpdateOTP"}
DeleteOps == {"sendDeleteOTP", "confirmDeleteHOD"}

\* A request of one of `ops` that changed the tenant documents.
Served200(ops) == HOD' # HOD /\ last'.op \in ops /\ last'.status = 200
Wrote(ops) == HOD' # HOD /\ last'.op \in ops

\* A purpose is completed only with a code issued for it.
CompletedByOwnCode ==
  /\ Served200({"verifyOTPHandler"}) => last'.id \in RegistrationCodes
  /\ Served200({"verifyUpdateOTP"}) => last'.id \in UpdateCodes
\* The deletion is confirmed only with a deletion code.
DeletedByOwnCode ==
  \A h \in DOMAIN HOD :
    (h \notin DOMAIN HOD' /\ last'.op = "confirmDeleteHOD") => last'.id \in DeleteCodes

\* The requests of one purpose leave the stored code of another as it is.
OtherCodesKept ==
  \A h \in DOMAIN HOD \cap DOMAIN HOD' :
    /\ (HOD[h].otp.code \in UpdateCodes /\ Wrote(RegistrationOps \cup DeleteOps)) =>
         HOD'[h].otp = HOD[h].otp
    /\ (HOD[h].otp.code \in RegistrationCodes /\ Wrote(UpdateOps \cup DeleteOps)) =>
         HOD'[h].otp = HOD[h].otp
DeleteCodeKept ==
  \A h \in DOMAIN HOD \cap DOMAIN HOD' :
    Wrote(RegistrationOps \cup UpdateOps) => HOD'[h].deleteOtp = HOD[h].deleteOtp

\* C38: the codes of registration-verification, profile-update and
\* deletion-confirmation are independent: no purpose is completed with a
\* code issued for another, and a request of one purpose (a code issued,
\* consumed or found expired) leaves the outstanding code of the others
\* untouched.
C38_CodesIndependent ==
  [][CompletedByOwnCode /\ DeletedByOwnCode /\ OtherCodesKept /\ DeleteCodeKept]_vars

\* The deletion code alone: it is kept in its own slot.
C38_DeleteCodeIndependent ==
  [][DeletedByOwnCode /\ DeleteCodeKept
       /\ \A h \in DOMAIN HOD \cap DOMAIN HOD' :
            Wrote(DeleteOps) => HOD'[h].otp = HOD[h].otp]_vars

\* The code sent for a change of address was taken by verifyOTPHandler: the
\* tenant is verified again, under its old address, with the change still
\* staged.
C38_UpdateCodeVerifiedRegistration ==
  /\ last.op = "verifyOTPHandler" /\ last.status = 200
  /\ last.id \in UpdateCodes
  /\ last.hod \in DOMAIN HOD
  /\ HOD[last.hod].verified
  /\ Pending(HOD[last.hod], "email") # NoValue

\* ------------------- the attendance reads of a professor or a tenant -------------------
\* The decoded token of a caller: role, id and, for a professor, hodId.
Callers ==
  {[role |-> "professor", id |-> "p1", hodId |-> "hA"],
   [role |-> "professor", id |-> "p3", hodId |-> "hB"],
   [role |-> "hod", id |-> "hA", hodId |-> NoValue],
   [role |-> "hod", id |-> "hB", hodId |-> NoValue]}

\* authorizeProfessorOrHod: the status it answers, 200 for next().
authorizeProfessorOrHod(user) ==
  IF user.role = "professor"
    THEN IF user.id \notin DOMAIN Professor THEN 404
         ELSE IF user.hodId = NoValue THEN 403
         ELSE IF Professor[user.id].createdBy # user.hodId THEN 403
         ELSE IF user.hodId \notin DOMAIN HOD THEN 404
         ELSE 200
  ELSE IF user.role = "hod"
    THEN IF user.id \notin DOMAIN HOD THEN 404
         ELSE IF ~HOD[user.id].verified THEN 403
         ELSE 200
  ELSE 403

\* The tenant a caller belongs to.
TenantOf(user) == IF user.role = "professor" THEN user.hodId ELSE user.id

\* Attendance.find(filter): a filter path that is absent matches every value.
AttendanceFind(classId, dateMs, slotNumber) ==
  {r \in BagToSet(Attendance) :
     /\ r.classId = classId
     /\ dateMs = NoDate \/ r.dateMs = dateMs
     /\ slotNumber = NoValue \/ r.slotNumber = Number(slotNumber)}

\* getAttendanceByDate: the records of the class on the resolved day.  A
\* classId that is no ObjectId fails the cast of the filter.
getAttendanceByDate(classId, slotNumber, dateMs, date) ==
  IF NoUsableDate(normalizedDateMs(dateMs, date)) THEN [status |-> 400, records |-> {}]
  ELSE IF ~ObjectIdIsValid(classId) THEN [status |-> 500, records |-> {}]
  ELSE [status |-> 200,
        records |-> AttendanceFind(classId, normalizedDateMs(dateMs, date), slotNumber)]

\* getClassAttendance: the records of the class, of one instant and slot
\* when the query names them.
getClassAttendance(classId, dateMs, slotNumber) ==
  IF ~ObjectIdIsValid(classId) THEN [status |-> 500, records |-> {}]
  ELSE [status |-> 200, records |-> AttendanceFind(classId, NumberOfDateMs(dateMs), slotNumber)]

\* The day the stored marks are of, and the instants asked for.
ReadDay == LocalMidnightOf(ParseDate(MarkedDay))
ReadDocuments ==
  {[studentId |-> IF c = "c1" THEN "s1" ELSE "s3", classId |-> c, dateMs |-> ReadDay,
    slotNumber |-> n, isPresent |-> TRUE, markedBy |-> IF c = "c1" THEN "p1" ELSE "p3"] :
     c \in ClassIds, n \in {1, 2}}
ReadSlots == {NoValue, "1"}

ReadLog(op, user, classId, st, records, summary) ==
  [op |-> op, hod |-> TenantOf(user), id |-> user.id, classId |-> classId,
   status |-> st, records |-> records, summary |-> summary]
ReadRespond(op, user, classId, o, summary) ==
  /\ last' = IF authorizeProfessorOrHod(user) # 200
               THEN ReadLog(op, user, classId, authorizeProfessorOrHod(user), {}, <<>>)
               ELSE ReadLog(op, user, classId, o.status, o.records, summary)
  /\ UNCHANGED <<Class, Student, Professor, allocated, prev, audit, Attendance,
                 calls, HOD, Counter, clock>>

GetAttendanceByDate ==
  \E user \in Callers, c \in ClassIds \cup {BadId}, slot \in ReadSlots,
     dateMs \in {NoDate, ReadDay}, date \in {NoDate, MarkedDay} :
    ReadRespond("getAttendanceByDate", user, c,
                getAttendanceByDate(c, slot, dateMs, date), <<>>)
GetClassAttendance ==
  \E user \in Callers, c \in ClassIds \cup {BadId}, slot \in ReadSlots,
     dateMs \in {NoDate, ReadDay} :
    ReadRespond("getClassAttendance", user, c, getClassAttendance(c, dateMs, slot), <<>>)
ReadMonthlySummary ==
  \E user \in Callers, c \in ClassIds \cup {BadId}, month \in {1, 2} :
    LET o == getMonthlySummary(c, month, 2024)
    IN  ReadRespond("getMonthlySummary", user, c,
                    [status |-> o.status,
                     records |-> IF o.status = 200 THEN MatchStage(c, 2024, month) ELSE {}],
                    o.summary)

\* Tenant hA owns class c1 and student s1, tenant hB class c2 and student
\* s3; the collection holds any of the marks of ReadDocuments.
InitRead ==
  /\ Class = [c \in ClassIds |->
                IF c = "c1" THEN [NewClass(1, "hA") EXCEPT !.professors = {"p1"}]
                ELSE [NewClass(1, "hB") EXCEPT !.professors = {"p3"}]]
  /\ Student = [s \in {"s1", "s3"} |->
                IF s = "s1" THEN NewStudent("e1", "hA") ELSE NewStudent("e3", "hB")]
  /\ Professor = [p \in ProfessorIds |->
                IF p = "p1" THEN [NewProfessor("hA") EXCEPT !.classes = {"c1"}]
                ELSE IF p = "p2" THEN NewProfessor("hA")
                ELSE [NewProfessor("hB") EXCEPT !.classes = {"c2"}]]
  /\ allocated = ClassIds \cup {"s1", "s3"} \cup ProfessorIds
  /\ last = NoRequest
  /\ prev = Roster
  /\ calls = [i \in CallIds |-> Idle]
  /\ HOD = [h \in HodIds |-> NewHOD(IF h = "hA" THEN "a@x.io" ELSE "b@x.io")]
  /\ Counter = [h \in HodIds |-> 1]
  /\ clock = 0
  /\ audit = FALSE
  /\ \E docs \in SUBSET ReadDocuments : Attendance = SetToBag(docs)
NextRead == GetAttendanceByDate \/ GetClassAttendance \/ ReadMonthlySummary
SpecRead == InitRead /\ [][NextRead]_vars

ReadOps == {"getAttendanceByDate", "getClassAttendance", "getMonthlySummary"}
\* The attendance records of the classes a tenant owns.
RecordsOfTenant(h) == {r \in BagToSet(Attendance) : ClassOwned(r.classId, h)}
ServedRead == last.op \in ReadOps /\ last.status = 200

\* C39: a served attendance read (getAttendanceByDate, getClassAttendance,
\* getMonthlySummary) of a professor or HOD of one tenant returns and
\* aggregates only attendance records of classes that tenant owns, so the
\* records another tenant holds never show in the response.
C39_ReadsOnlyOwnTenant ==
  ServedRead =>
    /\ last.records \subseteq RecordsOfTenant(last.hod)
    /\ last.op = "getMonthlySummary" =>
         \A x \in DOMAIN last.summary : Student[x].createdBy = last.hod

\* A served read returns records of the class its path names, whoever
\* owns that class.
C39_ReadsOnlyNamedClass ==
  ServedRead => \A r \in last.records : r.classId = last.classId

\* Professor p1 of tenant hA asked for class c2 of tenant hB and was given
\* its marks.
C39_ForeignRecordsReturned ==
  /\ ServedRead
  /\ last.hod = "hA" /\ last.id = "p1"
  /\ last.classId = "c2"
  /\ last.records # {}
  /\ \A r \in last.records : ClassOwned(r.classId, "hB")

\* ------------------- what a tenant's requests do to another tenant -------------------
\* The professor controller of the e-mail login variant (its professors
\* have a globally unique e-mail address): deleteProfessor and
\* bulkDeleteProfessors look a professor up by _id alone.
\* Professor.find({ _id: { $in: validIds } })
professorsOfAnyTenant(ids) == DOMAIN Professor \cap ids

deleteProfessorByIdOnly(id) ==
  IF ~ObjectIdIsValid(id) THEN {Fail(500)}
  ELSE IF professorsOfAnyTenant({id}) = {} THEN {Fail(404)}
  ELSE {Out(200, ClassesPullProfessors(Class, {id}), Student, Without(Professor, {id}))}

bulkDeleteProfessorsByIdOnly(professorIds) ==
  LET validIds == {p \in Range(professorIds) : ObjectIdIsValid(p)}
      profObjectIds == professorsOfAnyTenant(validIds)
  IN  IF Len(professorIds) = 0 THEN {Fail(400)}
      ELSE IF validIds = {} THEN {Fail(400)}
      ELSE IF profObjectIds = {} THEN {Fail(404)}
      ELSE {Out(200, ClassesPullProfessors(Class, profObjectIds), Student,
                Without(Professor, profObjectIds))}

\* The requests of the HOD of tenant hA: a class, and lists of students and
\* of professors, of its own tenant and of tenant hB.
ScopeStudentLists == {l \in IdLists({"s1", "s3"}) : Len(l) > 0}
ScopeProfessorLists == {l \in IdLists({"p1", "p3"}) : Len(l) > 0}
ScopeClassLists == {l \in IdLists(ClassIds) : Len(l) > 0}
ScopeRespond(op, id, ids, outs) ==
  /\ Respond(op, "hA", id, ids, outs)
  /\ UNCHANGED allocated

ScopeAssignStudents ==
  \E c \in ClassIds, ids \in ScopeStudentLists :
    ScopeRespond("assignStudentsToClass", c, ids, assignStudentsToClass("hA", c, ids))
ScopeRemoveStudents ==
  \E c \in ClassIds, ids \in ScopeStudentLists :
    ScopeRespond("removeStudentsFromClass", c, ids, removeStudentsFromClass("hA", c, ids))
ScopeAssignProfessors ==
  \E c \in ClassIds, ids \in ScopeProfessorLists :
    ScopeRespond("assignProfessorsToClass", c, ids, assignProfessorsToClass("hA", c, ids))
ScopeRemoveProfessors ==
  \E c \in ClassIds, ids \in ScopeProfessorLists :
    ScopeRespond("removeProfessorsFromClass", c, ids,
                 removeProfessorsFromClass("hA", c, ids))
ScopeUpdateStudent ==
  \E x \in {"s1", "s3"}, c \in ClassIds :
    ScopeRespond("updateStudent", x, <<c>>,
                 updateStudent("hA", x, NoValue, [given |-> TRUE, ids |-> <<c>>], NoValue))
ScopeDeleteClass ==
  \E c \in ClassIds : ScopeRespond("deleteClass", c, <<>>, deleteClass("hA", c))
ScopeDeleteStudent ==
  \E x \in {"s1", "s3"} : ScopeRespond("deleteStudent", x, <<>>, deleteStudent("hA", x))
ScopeDeleteProfessor ==
  \E x \in {"p1", "p3"} : ScopeRespond("deleteProfessor", x, <<>>, deleteProfessor("hA", x))
ScopeBulkDeleteClasses ==
  \E ids \in ScopeClassLists :
    ScopeRespond("bulkDeleteClasses", "", ids, bulkDeleteClasses("hA", ids))
ScopeDeleteStudentsBulk ==
  \E ids \in ScopeStudentLists :
    ScopeRespond("deleteStudentsBulk", "", ids, deleteStudentsBulk("hA", ids))
ScopeBulkDeleteProfessors ==
  \E ids \in ScopeProfessorLists :
    ScopeRespond("bulkDeleteProfessors", "", ids, bulkDeleteProfessors("hA", ids))
DeleteProfessorByIdOnly ==
  \E x \in {"p1", "p3"} :
    ScopeRespond("deleteProfessor (e-mail variant)", x, <<>>, deleteProfessorByIdOnly(x))
BulkDeleteProfessorsByIdOnly ==
  \E ids \in ScopeProfessorLists :
    ScopeRespond("bulkDeleteProfessors (e-mail variant)", "", ids,
                 bulkDeleteProfessorsByIdOnly(ids))

\* Tenant hA owns class c1 with student s1 and professor p1 in it, and
\* student s2 and professor p2 in no class; tenant hB owns class c2 with
\* student s3 and professor p3 in it.
InitScope ==
  /\ Class = [c \in ClassIds |->
                IF c = "c1"
                  THEN [NewClass(1, "hA") EXCEPT !.students = {"s1"}, !.professors = {"p1"}]
                  ELSE [NewClass(1, "hB") EXCEPT !.students = {"s3"}, !.professors = {"p3"}]]
  /\ Student = [s \in StudentIds |->
                IF s = "s1" THEN [NewStudent("e1", "hA") EXCEPT !.classIds = {"c1"}]
                ELSE IF s = "s2" THEN NewStudent("e2", "hA")
                ELSE [NewStudent("e3", "hB") EXCEPT !.classIds = {"c2"}]]
  /\ Professor = [p \in ProfessorIds |->
                IF p = "p1" THEN [NewProfessor("hA") EXCEPT !.classes = {"c1"}]
                ELSE IF p = "p2" THEN NewProfessor("hA")
                ELSE [NewProfessor("hB") EXCEPT !.classes = {"c2"}]]
  /\ allocated = ClassIds \cup StudentIds \cup ProfessorIds
  /\ last = NoRequest
  /\ prev = Roster
  /\ Attendance = EmptyBag
  /\ calls = [i \in CallIds |-> Idle]
  /\ HOD = [h \in HodIds |-> NewHOD(IF h = "hA" THEN "a@x.io" ELSE "b@x.io")]
  /\ Counter = [h \in HodIds |-> 1]
  /\ clock = 0
  /\ audit = TRUE
NextScope ==
  \/ ScopeAssignStudents
  \/ ScopeRemoveStudents
  \/ ScopeAssignProfessors
  \/ ScopeRemoveProfessors
  \/ ScopeUpdateStudent
  \/ ScopeDeleteClass
  \/ ScopeDeleteStudent
  \/ ScopeDeleteProfessor
  \/ ScopeBulkDeleteClasses
  \/ ScopeDeleteStudentsBulk
  \/ ScopeBulkDeleteProfessors
  \/ DeleteProfessorByIdOnly
  \/ BulkDeleteProfessorsByIdOnly
SpecScope == InitScope /\ [][NextScope]_vars

\* The documents of `before` that tenant h does not own are in `after` as
\* they were.
ForeignKept(before, after, h) ==
  \A x \in DOMAIN before :
    before[x].createdBy # h => x \in DOMAIN after /\ after[x] = before[x]
ForeignUntouched ==
  /\ ForeignKept(prev.Class, Class, last.hod)
  /\ ForeignKept(prev.Student, Student, last.hod)
  /\ ForeignKept(prev.Professor, Professor, last.hod)
\* The ids of the request that name a document of another tenant.
ForeignIds(ids) ==
  {x \in ids : \E f \in {prev.Class, prev.Student, prev.Professor} :
     x \in DOMAIN f /\ f[x].createdBy # last.hod}
ByIdOnlyOps == {"deleteProfessor (e-mail variant)", "bulkDeleteProfessors (e-mail variant)"}
NamesItsTarget ==
  last.op \in {"assignStudentsToClass", "removeStudentsFromClass",
               "assignProfessorsToClass", "removeProfessorsFromClass", "updateStudent",
               "deleteClass", "deleteStudent", "deleteProfessor"} \cup ByIdOnlyOps

\* C40: no mutating request of the HOD of one tenant (assign, remove,
\* update, single delete, bulk delete) deletes or changes a Class, Student
\* or Professor another tenant owns; a request whose target is another
\* tenant's document is answered 404 (400 when its body is refused before
\* the lookup), and the documents of another tenant named in a bulk delete
\* are all still there afterwards.
C40_OtherTenantUntouched ==
  last.op # "none" =>
    /\ ForeignUntouched
    /\ (NamesItsTarget /\ ForeignIds({last.id}) # {}) => last.status \in {400, 404}

\* The same for the handlers that look documents up with createdBy.
C40_ScopedHandlersKeepOtherTenant ==
  (last.op # "none" /\ last.op \notin ByIdOnlyOps) =>
    /\ ForeignUntouched
    /\ (NamesItsTarget /\ ForeignIds({last.id}) # {}) => last.status \in {400, 404}

\* The HOD of tenant hA sent the id of hB's professor p3 in a bulk delete
\* and p3 is gone, pulled from hB's class as well.
C40_ForeignProfessorDeleted ==
  /\ last.op = "bulkDeleteProfessors (e-mail variant)"
  /\ last.hod = "hA" /\ last.status = 200
  /\ "p3" \in DOMAIN prev.Professor /\ prev.Professor["p3"].createdBy = "hB"
  /\ "p3" \notin DOMAIN Professor
  /\ "c2" \in DOMAIN Class /\ "p3" \in prev.Class["c2"].professors
  /\ "p3" \notin Class["c2"].professors

====
